---------------------------- MODULE Spec2Model ----------------------------
(***************************************************************************)
(* Home Assistant <-> Savant TCP bridge.                                   *)
(*                                                                         *)
(* The state machines modelled, each with its own specification:           *)
(*   Spec      the Go UpstreamLink, ha.Client (src/pkg/ha/client.go):      *)
(*             connectLoop, readLoop, writeLoop, pingLoop and the          *)
(*             goroutines that call SendCommand;                           *)
(*   SpecHass  the reactor implementation, class Hass with the             *)
(*             SelectController timeouts (src/unnamed/part_000);           *)
(*   SpecSrv   the Go downstream gateway, savant.Server                    *)
(*             (src/unnamed/part_001) with the filter / alias state of     *)
(*             the ha.Client it shares between sessions;                   *)
(*   SpecGate  the way of a line from the upstream read loop through       *)
(*             Server.Broadcast to the sessions, with the whitelist and    *)
(*             the unsynchronised clients map;                             *)
(*   SpecAllow the whitelist check followed by command dispatch;           *)
(*   SpecCmd   handleCommand with the alias maps of the ha.Client;         *)
(*   SpecFlat  the translation of a state_changed event into lines         *)
(*             (processEvent, flattenAndSend, processMap,                  *)
(*             sendSavantUpdate);                                          *)
(*   SpecParse the same translation in the reactor implementation          *)
(*             (parse_state, update_with_hash, update_hass_data);          *)
(*   SpecStart Server.Start, the bind of the listener, before SpecGate;    *)
(*   SpecSnap  flattenAndSend call by call, with the sessions setting      *)
(*             the filter and the alias map in between.                    *)
(***************************************************************************)
EXTENDS Integers, Sequences, FiniteSets, TLC

(***************************************************************************)
(* Bounds of the model.                                                    *)
(***************************************************************************)
\* number of successful Dials the model follows
MaxConns == 2
\* largest command id handed out (idCounter is an int64 in the code)
MaxId == 2
\* number of lines the model follows from onMessage to the sessions
MaxLines == 2
\* lines a downstream socket buffers for a peer that does not read (the
\* kernel's send and receive buffers, counted in lines)
SockBufCap == 1

(***************************************************************************)
(* Program constants.                                                      *)
(***************************************************************************)
\* sendChan: make(chan interface{}, 100)
SendChanCap == 100
\* reconnectChan: make(chan bool, 1)
ReconnectCap == 1
\* the response-timeout of the keepalive, in seconds
PongWait == 2

Conns == 1..MaxConns
\* the session goroutines (handleConnection) that call SendCommand
Callers == {"s1"}
Token == "SUPERVISOR_TOKEN"

\* the frame types handleMessage tells apart, and a frame that is not JSON
TypeAuthRequired == "auth_required"
TypeAuthOK == "auth_ok"
TypeAuthInvalid == "auth_invalid"
TypeEvent == "event"
TypeResult == "result"
TypePong == "pong"
TypePing == "ping"
TypeCallService == "call_service"
Malformed == "malformed"
FrameTypes == {TypeAuthRequired, TypeAuthOK, TypeAuthInvalid, TypeEvent,
               TypeResult, TypePong, Malformed}

VARIABLES
  \* ---- ha.Client --------------------------------------------------------
  conn,          \* c.conn: 0 is nil, otherwise the connection dialled
  sock,          \* per connection: "unused", "open", "closed" (conn.Close())
  isAuth,        \* c.isAuth
  idCounter,     \* c.idCounter
  sendChan,      \* c.sendChan, a FIFO of commands
  reconnectChan, \* c.reconnectChan, the number of tokens it holds
  running,       \* FALSE once a goroutine has panicked (the process is gone)
  clPc,          \* connectLoop: where it is
  rl,            \* readLoop started for connection c: where it is
  rlCmd,         \* readLoop: the subscribe_events command SendCommand is sending
  wl,            \* writeLoop started for connection c: where it is
  wlMsg,         \* writeLoop: the command taken from sendChan
  wlConn,        \* writeLoop: c.conn as the nil check saw it
  pl,            \* pingLoop started for connection c: where it is
  plCmd,         \* pingLoop: the ping command SendCommand is sending
  sc,            \* session goroutine k inside SendCommand: where it is
  scCmd,         \* session goroutine: the command SendCommand is sending
  \* ---- what the feed and an observer see ---------------------------------
  \* (all of these are about the connection dialled last)
  wire,          \* the requests written to it, in order
  authFrame,     \* access_token of the last auth frame written to it
  authOks,       \* number of auth_ok frames handled on it
  subs,          \* subscribe_events commands handleMessage put on sendChan for it
  silence,       \* seconds since a ping was written with no inbound frame
                 \* after it, -1 when no ping is outstanding
  \* ---- class Hass (the reactor implementation) ---------------------------
  hass,          \* the Hass object, its sockets and its timeouts
  \* ---- savant.Server and the ha.Client it shares -------------------------
  sess,          \* per peer: "none", "open" (handleConnection runs), "closed"
  clients,       \* s.clients
  filter,        \* haClient.filter
  substituteIDs, \* haClient.substituteIDs: entity_id -> substitute_id
  sessFilter,    \* per peer: the filter its session set since it was accepted
  sessSubs,      \* per peer: the map its session set since it was accepted
  delivered,     \* per peer: the line Broadcast wrote to it for the last event
  expected,      \* per peer: the line its own filter and map give for it
  \* ---- savant.Server, line by line and socket by socket ------------------
  whitelist,     \* s.whitelist (cfg.Whitelist)
  listener,      \* Server.Start: "unbound", "listening", "failed" (net.Listen)
  emitted,       \* number of lines onMessage has handed to Broadcast
  bcLeft,        \* lines of the frame in hand that are still to be emitted
  bcTodo,        \* Broadcast: the registered connections still to be written
  lastLine,      \* per peer: the last line written to its connection, 0: none
  unread,        \* per peer: lines in its socket buffer the peer has not read
  \* ---- the command side of the shared ha.Client -------------------------
  idSubstitutes, \* haClient.idSubstitutes: substitute_id -> entity_id
  enableGeneric, \* cfg.Options.EnableGenericCallService
  \* ---- the translation of one event --------------------------------------
  event,         \* the new_state of the state_changed event handled last
  todo,          \* flattenAndSend: the calls it has still to make for it
  lines          \* the lines onMessage was called with for it, in order

linkVars == <<conn, sock, isAuth, idCounter, sendChan, reconnectChan, running,
              clPc, rl, rlCmd, wl, wlMsg, wlConn, pl, plCmd, sc, scCmd,
              wire, authFrame, authOks, subs, silence>>

hassVars == <<hass>>

gateVars == <<whitelist, listener, emitted, bcLeft, bcTodo, lastLine, unread>>

cmdVars == <<idSubstitutes, enableGeneric>>

flatVars == <<event, todo, lines>>

srvVars == <<sess, clients, filter, substituteIDs, sessFilter, sessSubs,
             delivered, expected, gateVars, cmdVars, flatVars>>

vars == <<linkVars, hassVars, srvVars>>

NoCmd == [type |-> "none", id |-> 0, pre |-> FALSE]

\* The link is Authenticated: a connection exists and auth_ok was handled on it.
Authenticated == conn # 0 /\ authOks > 0

\* the connections dialled so far; a reconnect has happened once there are two
Dialled == {c \in Conns : sock[c] # "unused"}
Reconnected == Cardinality(Dialled) >= 2

(***************************************************************************)
(* NewClient: the state after construction.                                *)
(***************************************************************************)
InitLink ==
  /\ conn = 0
  /\ sock = [c \in Conns |-> "unused"]
  /\ isAuth = FALSE
  /\ idCounter = 0
  /\ sendChan = <<>>
  /\ reconnectChan = 0
  /\ running = TRUE
  /\ clPc = "connect"
  /\ rl = [c \in Conns |-> "none"]
  /\ rlCmd = NoCmd
  /\ wl = [c \in Conns |-> "none"]
  /\ wlMsg = [c \in Conns |-> NoCmd]
  /\ wlConn = [c \in Conns |-> 0]
  /\ pl = [c \in Conns |-> "none"]
  /\ plCmd = [c \in Conns |-> NoCmd]
  /\ sc = [k \in Callers |-> "idle"]
  /\ scCmd = [k \in Callers |-> NoCmd]
  /\ wire = <<>>
  /\ authFrame = "none"
  /\ authOks = 0
  /\ subs = 0
  /\ silence = -1

(***************************************************************************)
(* SendCommand, lines 208-212: the id is drawn (atomic.AddInt64) and set   *)
(* in the command, and only then the command is sent on sendChan; the two  *)
(* are separate steps of the calling goroutine.  `pre` records whether the *)
(* link was not Authenticated when the command was submitted.              *)
(***************************************************************************)
SendCommand_draw(t) ==
  [type |-> t, id |-> idCounter + 1, pre |-> ~Authenticated]

SendCommand_canSend == Len(sendChan) < SendChanCap

(***************************************************************************)
(* connectLoop / connect / cleanup, lines 119-157.                         *)
(***************************************************************************)
\* connect(): Dial succeeds, c.conn = conn (lines 138-142)
connect_Dial(c) ==
  /\ running /\ clPc = "connect"
  /\ sock[c] = "unused" /\ \A d \in Conns : d < c => sock[d] # "unused"
  /\ conn' = c
  /\ sock' = [sock EXCEPT ![c] = "open"]
  /\ clPc' = "start"
  /\ wire' = <<>> /\ authFrame' = "none"
  /\ authOks' = 0 /\ subs' = 0 /\ silence' = -1
  /\ UNCHANGED <<hassVars, srvVars>>
  /\ UNCHANGED <<isAuth, idCounter, sendChan, reconnectChan, running, rl, rlCmd,
                 wl, wlMsg, wlConn, pl, plCmd, sc, scCmd>>

\* connect_Start, but c.isAuth keeps the value the last connection left
connect_Start_keepsAuth ==
  /\ running /\ clPc = "start"
  /\ rl' = [rl EXCEPT ![conn] = "read"]
  /\ wl' = [wl EXCEPT ![conn] = "recv"]
  /\ pl' = [pl EXCEPT ![conn] = "select"]
  /\ clPc' = "wait"
  /\ UNCHANGED <<hassVars, srvVars>>
  /\ UNCHANGED <<conn, sock, isAuth, idCounter, sendChan, reconnectChan, running,
                 rlCmd, wlMsg, wlConn, plCmd, sc, scCmd, wire, authFrame,
                 authOks, subs, silence>>

\* connect_Start, but the id counter restarts with the connection
connect_Start_resetsId ==
  /\ running /\ clPc = "start"
  /\ isAuth' = FALSE
  /\ idCounter' = 0
  /\ rl' = [rl EXCEPT ![conn] = "read"]
  /\ wl' = [wl EXCEPT ![conn] = "recv"]
  /\ pl' = [pl EXCEPT ![conn] = "select"]
  /\ clPc' = "wait"
  /\ UNCHANGED <<hassVars, srvVars>>
  /\ UNCHANGED <<conn, sock, sendChan, reconnectChan, running, rlCmd, wlMsg,
                 wlConn, plCmd, sc, scCmd, wire, authFrame, authOks, subs,
                 silence>>

\* connect(): c.isAuth = false; go readLoop(); go writeLoop(); go pingLoop()
\* (lines 143-149)
connect_Start ==
  /\ running /\ clPc = "start"
  /\ isAuth' = FALSE
  /\ rl' = [rl EXCEPT ![conn] = "read"]
  /\ wl' = [wl EXCEPT ![conn] = "recv"]
  /\ pl' = [pl EXCEPT ![conn] = "select"]
  /\ clPc' = "wait"
  /\ UNCHANGED <<hassVars, srvVars>>
  /\ UNCHANGED <<conn, sock, idCounter, sendChan, reconnectChan, running, rlCmd,
                 wlMsg, wlConn, plCmd, sc, scCmd, wire, authFrame, authOks, subs, silence>>

\* connect() returns the Dial error: log, sleep 5s, continue (lines 139-141, 122-126)
connect_Fail ==
  /\ running /\ clPc = "connect"
  /\ clPc' = "retry"
  /\ UNCHANGED <<hassVars, srvVars>>
  /\ UNCHANGED <<conn, sock, isAuth, idCounter, sendChan, reconnectChan, running,
                 rl, rlCmd, wl, wlMsg, wlConn, pl, plCmd, sc, scCmd, wire,
                 authFrame, authOks, subs, silence>>

\* the 5s sleep is over
connectLoop_Retry ==
  /\ running /\ clPc = "retry"
  /\ clPc' = "connect"
  /\ UNCHANGED <<hassVars, srvVars>>
  /\ UNCHANGED <<conn, sock, isAuth, idCounter, sendChan, reconnectChan, running,
                 rl, rlCmd, wl, wlMsg, wlConn, pl, plCmd, sc, scCmd, wire,
                 authFrame, authOks, subs, silence>>

\* <-c.reconnectChan (line 129)
connectLoop_Wait ==
  /\ running /\ clPc = "wait"
  /\ reconnectChan > 0
  /\ reconnectChan' = reconnectChan - 1
  /\ clPc' = "cleanup"
  /\ UNCHANGED <<hassVars, srvVars>>
  /\ UNCHANGED <<conn, sock, isAuth, idCounter, sendChan, running, rl, rlCmd, wl,
                 wlMsg, wlConn, pl, plCmd, sc, scCmd, wire, authFrame, authOks, subs, silence>>

\* cleanup, but the downstream sessions are closed with the upstream socket
cleanup_closesSessions ==
  /\ running /\ clPc = "cleanup"
  /\ IF conn # 0
       THEN /\ sock' = [sock EXCEPT ![conn] = "closed"]
            /\ conn' = 0
       ELSE UNCHANGED <<sock, conn>>
  /\ clPc' = "connect"
  /\ sess' = [q \in DOMAIN sess |-> IF sess[q] = "open" THEN "closed" ELSE sess[q]]
  /\ clients' = {}
  /\ UNCHANGED <<filter, substituteIDs, sessFilter, sessSubs, delivered,
                 expected, gateVars, cmdVars, hassVars, flatVars>>
  /\ UNCHANGED <<isAuth, idCounter, sendChan, reconnectChan, running, rl, rlCmd,
                 wl, wlMsg, wlConn, pl, plCmd, sc, scCmd, wire, authFrame,
                 authOks, subs, silence>>

\* cleanup(): close the socket and forget it; then the 1s sleep (lines 131-132, 152-157)
cleanup ==
  /\ running /\ clPc = "cleanup"
  /\ IF conn # 0
       THEN /\ sock' = [sock EXCEPT ![conn] = "closed"]
            /\ conn' = 0
       ELSE UNCHANGED <<sock, conn>>
  /\ clPc' = "connect"
  /\ UNCHANGED <<hassVars, srvVars>>
  /\ UNCHANGED <<isAuth, idCounter, sendChan, reconnectChan, running, rl, rlCmd,
                 wl, wlMsg, wlConn, pl, plCmd, sc, scCmd, wire, authFrame,
                 authOks, subs, silence>>

\* handleMessage that gives the connection up on a frame it cannot decode
handleMessage_dropsOnMalformed(c, m) ==
     CASE m = TypeAuthRequired ->
            /\ authFrame' = Token
            /\ UNCHANGED <<isAuth, authOks, rl>>
       [] m = TypeAuthOK ->
            /\ isAuth' = TRUE
            /\ authOks' = authOks + 1
            /\ rl' = [rl EXCEPT ![c] = "subscribe"]
            /\ UNCHANGED authFrame
       [] m = Malformed ->
            /\ rl' = [rl EXCEPT ![c] = "exit"]
            /\ UNCHANGED <<authFrame, isAuth, authOks>>
       [] OTHER ->
            UNCHANGED <<authFrame, isAuth, authOks, rl>>

(***************************************************************************)
(* handleMessage, lines 230-261, as the first step the read loop takes on  *)
(* a frame of type m read from connection c.                               *)
(***************************************************************************)
handleMessage(c, m) ==
     CASE m = TypeAuthRequired ->
            \* c.conn.WriteJSON({type: auth, access_token: c.token})
            /\ authFrame' = Token
            /\ UNCHANGED <<isAuth, authOks, rl>>
       [] m = TypeAuthOK ->
            \* c.isAuth = true; SubscribeEvents() follows
            /\ isAuth' = TRUE
            /\ authOks' = authOks + 1
            /\ rl' = [rl EXCEPT ![c] = "subscribe"]
            /\ UNCHANGED authFrame
       [] OTHER ->
            \* event: processEvent hands lines to onMessage; result, pong,
            \* auth_invalid, anything else and undecodable JSON: nothing
            UNCHANGED <<authFrame, isAuth, authOks, rl>>

(***************************************************************************)
(* readLoop, lines 159-175.                                                *)
(***************************************************************************)
\* ReadMessage returns a frame of type m; handleMessage(message)
readLoop_Read(c, m) ==
  /\ running /\ rl[c] = "read"
  /\ conn # 0
  /\ m = TypeAuthOK => authOks < MaxId
  /\ handleMessage(c, m)
  /\ silence' = -1
  /\ UNCHANGED <<hassVars, srvVars>>
  /\ UNCHANGED <<conn, sock, idCounter, sendChan, reconnectChan, running, clPc,
                 rlCmd, wl, wlMsg, wlConn, pl, plCmd, sc, scCmd, wire, subs>>

\* c.conn == nil: return; or ReadMessage returns an error (the feed closed
\* the connection, or the network lost it): log and return
readLoop_Error(c) ==
  /\ running /\ rl[c] = "read"
  /\ rl' = [rl EXCEPT ![c] = "exit"]
  /\ UNCHANGED <<hassVars, srvVars>>
  /\ UNCHANGED <<conn, sock, isAuth, idCounter, sendChan, reconnectChan, running,
                 clPc, rlCmd, wl, wlMsg, wlConn, pl, plCmd, sc, scCmd, wire,
                 authFrame, authOks, subs, silence>>

\* handleMessage, auth_ok: SubscribeEvents -> SendCommand draws the id
readLoop_Subscribe(c) ==
  /\ running /\ rl[c] = "subscribe"
  /\ idCounter < MaxId
  /\ idCounter' = idCounter + 1
  /\ rlCmd' = SendCommand_draw("subscribe_events")
  /\ rl' = [rl EXCEPT ![c] = "send"]
  /\ UNCHANGED <<hassVars, srvVars>>
  /\ UNCHANGED <<conn, sock, isAuth, sendChan, reconnectChan, running, clPc, wl,
                 wlMsg, wlConn, pl, plCmd, sc, scCmd, wire, authFrame, authOks,
                 subs, silence>>

\* handleMessage, auth_ok: c.sendChan <- cmd, then onMessage("hass_websocket_connected")
readLoop_Send(c) ==
  /\ running /\ rl[c] = "send"
  /\ SendCommand_canSend
  /\ sendChan' = Append(sendChan, rlCmd)
  /\ subs' = subs + 1
  /\ rl' = [rl EXCEPT ![c] = "read"]
  /\ UNCHANGED <<hassVars, srvVars>>
  /\ UNCHANGED <<conn, sock, isAuth, idCounter, reconnectChan, running, clPc,
                 rlCmd, wl, wlMsg, wlConn, pl, plCmd, sc, scCmd, wire, authFrame,
                 authOks, silence>>

\* the deferred c.reconnectChan <- true
readLoop_Exit(c) ==
  /\ running /\ rl[c] = "exit"
  /\ reconnectChan < ReconnectCap
  /\ reconnectChan' = reconnectChan + 1
  /\ rl' = [rl EXCEPT ![c] = "done"]
  /\ UNCHANGED <<hassVars, srvVars>>
  /\ UNCHANGED <<conn, sock, isAuth, idCounter, sendChan, running, clPc, rlCmd,
                 wl, wlMsg, wlConn, pl, plCmd, sc, scCmd, wire, authFrame,
                 authOks, subs, silence>>

(***************************************************************************)
(* writeLoop, lines 177-188.  The nil check of c.conn and the use of       *)
(* c.conn in WriteJSON are two unsynchronised reads of a field that        *)
(* connectLoop writes: the write may use the value the check saw or the    *)
(* value the field holds by then.                                          *)
(***************************************************************************)
\* msg := <-c.sendChan; if c.conn == nil { continue }
writeLoop_Recv(c) ==
  /\ running /\ wl[c] = "recv"
  /\ sendChan # <<>>
  /\ sendChan' = Tail(sendChan)
  /\ IF conn = 0
       THEN UNCHANGED <<wl, wlMsg, wlConn>>
       ELSE /\ wl' = [wl EXCEPT ![c] = "write"]
            /\ wlMsg' = [wlMsg EXCEPT ![c] = Head(sendChan)]
            /\ wlConn' = [wlConn EXCEPT ![c] = conn]
  /\ UNCHANGED <<hassVars, srvVars>>
  /\ UNCHANGED <<conn, sock, isAuth, idCounter, reconnectChan, running, clPc, rl,
                 rlCmd, pl, plCmd, sc, scCmd, wire, authFrame, authOks,
                 subs, silence>>

\* c.conn.WriteJSON(msg) on connection t succeeds
writeLoop_Write(c, t) ==
  /\ running /\ wl[c] = "write"
  /\ t \in {wlConn[c], conn} /\ t # 0
  /\ sock[t] = "open"
  /\ wire' = Append(wire, [type |-> wlMsg[c].type, id |-> wlMsg[c].id,
                           pre |-> wlMsg[c].pre, authed |-> authOks > 0])
  /\ silence' = IF wlMsg[c].type = TypePing /\ t = conn /\ silence = -1
                  THEN 0 ELSE silence
  /\ wl' = [wl EXCEPT ![c] = "recv"]
  /\ wlMsg' = [wlMsg EXCEPT ![c] = NoCmd]
  /\ wlConn' = [wlConn EXCEPT ![c] = 0]
  /\ UNCHANGED <<hassVars, srvVars>>
  /\ UNCHANGED <<conn, sock, isAuth, idCounter, sendChan, reconnectChan, running,
                 clPc, rl, rlCmd, pl, plCmd, sc, scCmd, authFrame, authOks, subs>>

\* c.conn.WriteJSON(msg) returns an error (the socket was closed): log and
\* return; the command is gone
writeLoop_Error(c, t) ==
  /\ running /\ wl[c] = "write"
  /\ t \in {wlConn[c], conn} /\ t # 0
  /\ sock[t] # "open"
  /\ wl' = [wl EXCEPT ![c] = "done"]
  /\ wlMsg' = [wlMsg EXCEPT ![c] = NoCmd]
  /\ wlConn' = [wlConn EXCEPT ![c] = 0]
  /\ UNCHANGED <<hassVars, srvVars>>
  /\ UNCHANGED <<conn, sock, isAuth, idCounter, sendChan, reconnectChan, running,
                 clPc, rl, rlCmd, pl, plCmd, sc, scCmd, wire, authFrame, authOks, subs, silence>>

\* c.conn.WriteJSON(msg) with c.conn nil by now: nil pointer dereference
writeLoop_Panic(c) ==
  /\ running /\ wl[c] = "write"
  /\ conn = 0
  /\ running' = FALSE
  /\ UNCHANGED <<hassVars, srvVars>>
  /\ UNCHANGED <<conn, sock, isAuth, idCounter, sendChan, reconnectChan, clPc, rl,
                 rlCmd, wl, wlMsg, wlConn, pl, plCmd, sc, scCmd, wire, authFrame,
                 authOks, subs, silence>>

(***************************************************************************)
(* pingLoop, lines 190-206.                                                *)
(***************************************************************************)
\* case <-ticker.C: if c.conn != nil && c.isAuth { SendCommand(ping) }: the id
pingLoop_Tick(c) ==
  /\ running /\ pl[c] = "select"
  /\ conn # 0 /\ isAuth
  /\ idCounter < MaxId
  /\ idCounter' = idCounter + 1
  /\ plCmd' = [plCmd EXCEPT ![c] = SendCommand_draw(TypePing)]
  /\ pl' = [pl EXCEPT ![c] = "send"]
  /\ UNCHANGED <<hassVars, srvVars>>
  /\ UNCHANGED <<conn, sock, isAuth, sendChan, reconnectChan, running, clPc, rl,
                 rlCmd, wl, wlMsg, wlConn, sc, scCmd, wire, authFrame, authOks, subs, silence>>

\* SendCommand: c.sendChan <- cmd
pingLoop_Send(c) ==
  /\ running /\ pl[c] = "send"
  /\ SendCommand_canSend
  /\ sendChan' = Append(sendChan, plCmd[c])
  /\ plCmd' = [plCmd EXCEPT ![c] = NoCmd]
  /\ pl' = [pl EXCEPT ![c] = "select"]
  /\ UNCHANGED <<hassVars, srvVars>>
  /\ UNCHANGED <<conn, sock, isAuth, idCounter, reconnectChan, running, clPc, rl,
                 rlCmd, wl, wlMsg, wlConn, sc, scCmd, wire, authFrame, authOks, subs, silence>>

\* case <-c.reconnectChan: return
pingLoop_Reconnect(c) ==
  /\ running /\ pl[c] = "select"
  /\ reconnectChan > 0
  /\ reconnectChan' = reconnectChan - 1
  /\ pl' = [pl EXCEPT ![c] = "done"]
  /\ UNCHANGED <<hassVars, srvVars>>
  /\ UNCHANGED <<conn, sock, isAuth, idCounter, sendChan, running, clPc, rl,
                 rlCmd, wl, wlMsg, wlConn, plCmd, sc, scCmd, wire, authFrame,
                 authOks, subs, silence>>

(***************************************************************************)
(* A session goroutine (Server.handleConnection -> handleCommand ->        *)
(* callService) calling SendCommand, lines 208-212.                        *)
(***************************************************************************)
\* id := atomic.AddInt64(&c.idCounter, 1); cmd["id"] = id
SendCommand_Add(k) ==
  /\ running /\ sc[k] = "idle"
  /\ idCounter < MaxId
  /\ idCounter' = idCounter + 1
  /\ scCmd' = [scCmd EXCEPT ![k] = SendCommand_draw(TypeCallService)]
  /\ sc' = [sc EXCEPT ![k] = "send"]
  /\ UNCHANGED <<hassVars, srvVars>>
  /\ UNCHANGED <<conn, sock, isAuth, sendChan, reconnectChan, running, clPc, rl,
                 rlCmd, wl, wlMsg, wlConn, pl, plCmd, wire, authFrame, authOks, subs, silence>>

\* c.sendChan <- cmd
SendCommand_Send(k) ==
  /\ running /\ sc[k] = "send"
  /\ SendCommand_canSend
  /\ sendChan' = Append(sendChan, scCmd[k])
  /\ scCmd' = [scCmd EXCEPT ![k] = NoCmd]
  /\ sc' = [sc EXCEPT ![k] = "idle"]
  /\ UNCHANGED <<hassVars, srvVars>>
  /\ UNCHANGED <<conn, sock, isAuth, idCounter, reconnectChan, running, clPc, rl,
                 rlCmd, wl, wlMsg, wlConn, pl, plCmd, wire, authFrame, authOks, subs, silence>>

(***************************************************************************)
(* The clock.                                                              *)
(***************************************************************************)
\* one second passes with a ping outstanding and no inbound frame
Tick ==
  /\ running /\ silence >= 0 /\ silence <= PongWait
  /\ silence' = silence + 1
  /\ UNCHANGED <<hassVars, srvVars>>
  /\ UNCHANGED <<conn, sock, isAuth, idCounter, sendChan, reconnectChan, running,
                 clPc, rl, rlCmd, wl, wlMsg, wlConn, pl, plCmd, sc, scCmd, wire,
                 authFrame, authOks, subs>>

NextLink ==
  \/ \E c \in Conns : connect_Dial(c)
  \/ connect_Start
  \/ connect_Fail
  \/ connectLoop_Retry
  \/ connectLoop_Wait
  \/ cleanup
  \/ \E c \in Conns, m \in FrameTypes : readLoop_Read(c, m)
  \/ \E c \in Conns : readLoop_Error(c)
  \/ \E c \in Conns : readLoop_Subscribe(c)
  \/ \E c \in Conns : readLoop_Send(c)
  \/ \E c \in Conns : readLoop_Exit(c)
  \/ \E c \in Conns : writeLoop_Recv(c)
  \/ \E c \in Conns, t \in Conns : writeLoop_Write(c, t)
  \/ \E c \in Conns, t \in Conns : writeLoop_Error(c, t)
  \/ \E c \in Conns : writeLoop_Panic(c)
  \/ \E c \in Conns : pingLoop_Tick(c)
  \/ \E c \in Conns : pingLoop_Send(c)
  \/ \E c \in Conns : pingLoop_Reconnect(c)
  \/ \E k \in Callers : SendCommand_Add(k)
  \/ \E k \in Callers : SendCommand_Send(k)
  \/ Tick

(***************************************************************************)
(* The reactor implementation: class Hass (src/unnamed/part_000, lines     *)
(* 669-903), one object per downstream client, with the timeouts and the   *)
(* socket registrations SelectController keeps for it.  The object is the  *)
(* record `hass`; a method is an operator from the object before the call  *)
(* to the object after it, so a handler is the composition of the methods  *)
(* it calls.                                                               *)
(*                                                                         *)
(* Time is counted in seconds.  timeouts[cb] is the number of seconds left *)
(* until callback cb is due, -1 when cb is not in @timeouts.  A due        *)
(* callback is run by handle_timeouts at the next pass of the select loop, *)
(* before another second has passed; the handlers of that pass and of the  *)
(* pass before it may run first.                                           *)
(***************************************************************************)
\* add_timeout(method(:start_ping_timer), 30)
PingInterval == 30
\* add_timeout(method(:connect_websocket), 5)
ReconnectDelay == 5
\* add_timeout(proc { to_savant("hass_websocket_connected,...") }, 5)
NoticeDelay == 5

Timers == {"start_ping_timer", "data_received_timeout", "connect_websocket",
           "connected_notice"}

\* a socket as SelectController sees it: registered in @readable, in
\* @writable, closed
NoSock == [readable |-> FALSE, writable |-> FALSE, closed |-> FALSE]

\* SelectController#add_timeout, lines 1052-1058: @timeouts[cb] = now + seconds
add_timeout(h, cb, seconds) == [h EXCEPT !.timeouts[cb] = seconds]

\* SelectController#remove_timeout, lines 1060-1062
remove_timeout(h, cb) == [h EXCEPT !.timeouts[cb] = -1]

\* WebSocketClient#send -> driver.text -> write -> add_writable (lines
\* 1369-1371, 1133-1142); on nil it raises NoMethodError, which ends the
\* select loop and the process (lines 1073-1080)
ws_send(h) ==
  IF h.hass_ws = 0 THEN [h EXCEPT !.up = FALSE]
                   ELSE [h EXCEPT !.ws.writable = TRUE]

\* push_to_queue, lines 869-873
push_to_queue(h, t) == [h EXCEPT !.authed_queue = Append(@, t)]

\* send_json, lines 858-867
send_json(h, t) ==
  IF h.auth_required THEN push_to_queue(h, t)
                     ELSE ws_send([h EXCEPT !.id = @ + 1])

\* send_json can be followed within the bound on @id
send_json_ok(h) == h.id + Len(h.authed_queue) < MaxId

\* start_ping_timer, lines 788-793
start_ping_timer(h) ==
  LET s == send_json([h EXCEPT !.ws_connected = TRUE], TypePing)
  IN  IF ~s.up THEN s
      ELSE [add_timeout(s, "data_received_timeout", PongWait)
              EXCEPT !.answered = FALSE]

\* data_received, but the response-timeout stays armed
data_received_keepsTimeout(h) ==
  [add_timeout([h EXCEPT !.ws_connected = TRUE], "start_ping_timer", PingInterval)
     EXCEPT !.answered = h.timeouts["data_received_timeout"] >= 0]

\* data_received, lines 795-801
data_received(h) ==
  [add_timeout(remove_timeout([h EXCEPT !.ws_connected = TRUE],
                              "data_received_timeout"),
               "start_ping_timer", PingInterval)
     EXCEPT !.answered = h.timeouts["data_received_timeout"] >= 0]

\* stop_ping_timer, lines 811-814
stop_ping_timer(h) == remove_timeout(h, "start_ping_timer")

\* reconnect_websocket, but without the guard on @reconnecting
reconnect_websocket_noGuard(h) ==
  [add_timeout(h, "connect_websocket", ReconnectDelay)
     EXCEPT !.ws.readable = FALSE, !.ws.writable = FALSE,
            !.reconnecting = TRUE,
            !.scheduled = @ + 1,
            !.triggers = IF h.reconnecting THEN @ ELSE @ + 1]

\* reconnect_websocket, lines 816-824
reconnect_websocket(h) ==
  IF h.reconnecting THEN [h EXCEPT !.ignored = TRUE]
  ELSE [add_timeout(h, "connect_websocket", ReconnectDelay)
          EXCEPT !.ws.readable = FALSE, !.ws.writable = FALSE,
                 !.reconnecting = TRUE,
                 !.scheduled = @ + 1,
                 !.triggers = @ + 1,
                 !.ignored = FALSE]

\* data_received_timeout, lines 803-809
data_received_timeout(h) ==
  reconnect_websocket([h EXCEPT !.ws_connected = FALSE])

\* connect_websocket, lines 747-771.  WebSocketClient.new (lines 1353-1366,
\* 1385-1413) starts the connect and the handshake; when it fails at once
\* (ok is FALSE) the socket is closed before the :error handler is set.  The
\* socket of the object @hass_ws held stays registered as it was.  Of the
\* four handlers set on the new object, :message and :error are the events
\* it raises (lines 1207, 1232); it raises :connect and :disconnect (lines
\* 1215, 1224), never :open or :close, so those two handlers do not run.
connect_websocket(h, ok) ==
  [h EXCEPT !.reconnecting = FALSE,
            !.hass_ws = h.connects + 1,
            !.connects = @ + 1,
            !.scheduled = 0,
            !.authed = FALSE,
            !.old = [readable |-> @.readable \/ (h.ws.readable /\ ~h.ws.closed),
                     writable |-> @.writable \/ (h.ws.writable /\ ~h.ws.closed),
                     closed |-> FALSE],
            !.ws = [readable |-> ok, writable |-> FALSE, closed |-> ~ok]]

\* cleanup_sockets, lines 773-786
cleanup_sockets(h) ==
  [stop_ping_timer(h) EXCEPT !.ws = NoSock,
                             !.ws_connected = FALSE,
                             !.hass_ws = 0,
                             !.client = "nil"]

\* to_savant, lines 884-894: without a client, or when peeraddr raises
\* IOError on the closed client socket, cleanup_sockets
to_savant(h) ==
  IF h.client = "up" THEN h ELSE cleanup_sockets(h)

\* send_auth, lines 851-856
send_auth(h) == ws_send([h EXCEPT !.auth_required = TRUE])

\* auth_ok, lines 875-882: @client.wait_io = false raises NoMethodError on
\* nil; the queue is sent in order, each entry with the next id.  (Each
\* auth_ok adds a timeout with a proc of its own; the model keeps the last.)
auth_ok(h) ==
  IF h.client = "nil" THEN [h EXCEPT !.up = FALSE]
  ELSE LET n == Len(h.authed_queue)
           s == [h EXCEPT !.auth_required = FALSE, !.id = @ + n]
           w == IF n > 0 THEN ws_send(s) ELSE s
       IN  IF ~w.up THEN w
           ELSE add_timeout([w EXCEPT !.authed_queue = <<>>],
                            "connected_notice", NoticeDelay)

\* handle_hash, lines 841-849.  event and result stand for a frame whose
\* parse_event / parse_result hands a line to to_savant; a frame that yields
\* no line does what an unknown type does.
handle_hash(h, m) ==
  CASE m = TypeAuthRequired -> send_auth(h)
    [] m = TypeEvent -> to_savant(h)
    [] m = TypeResult -> to_savant(h)
    [] m = TypeAuthOK -> auth_ok(h)
    [] m = TypePong -> to_savant(h)
    [] OTHER -> h

\* handle_message, lines 832-839: JSON.parse raises on a frame that is not
\* JSON, which ends the select loop and the process
handle_message(h, m) ==
  IF m = Malformed THEN [h EXCEPT !.up = FALSE]
  ELSE handle_hash(IF h.ws_connected THEN h ELSE start_ping_timer(h), m)

\* the :message handler, lines 757-760
on_message(h, m) == handle_message(data_received(h), m)

\* initialize, lines 677-692, up to the call of connect_websocket.  The
\* last five fields observe the object: connects counts the calls of
\* connect_websocket, triggers the calls of reconnect_websocket that passed
\* its guard, scheduled the add_timeout(connect_websocket) calls since
\* connect_websocket ran last, ignored tells that reconnect_websocket was
\* called and returned at its guard since the last call that passed it, and
\* answered tells that the response-timeout armed by the last ping was still
\* armed when a message came in, and authed that the auth_ok of the socket
\* @hass_ws holds has been handled.
initialize ==
  [reconnecting |-> FALSE, ws_connected |-> FALSE, auth_required |-> TRUE,
   authed_queue |-> <<>>, id |-> 0, hass_ws |-> 0, ws |-> NoSock,
   old |-> NoSock, client |-> "up", timeouts |-> [t \in Timers |-> -1],
   up |-> TRUE, connects |-> 0, scheduled |-> 0, triggers |-> 0,
   ignored |-> FALSE, answered |-> FALSE, authed |-> FALSE,
   filter |-> <<"all">>, substitute_id |-> <<>>, id_substitute |-> <<>>]

\* Hass.new, lines 677-692 and 1518
InitHass == \E ok \in BOOLEAN : hass = connect_websocket(initialize, ok)

\* handle_timeouts, lines 985-996: callback cb is due; it is deleted from
\* @timeouts and then called
handle_timeouts(cb) == hass.up /\ hass.timeouts[cb] = 0

\* one second passes: select waits until the next timeout is due (lines
\* 1095-1121)
Elapse ==
  /\ hass.up
  /\ \E t \in Timers : hass.timeouts[t] > 0
  /\ \A t \in Timers : hass.timeouts[t] # 0
  /\ hass' = [hass EXCEPT !.timeouts =
                [t \in Timers |-> IF @[t] > 0 THEN @[t] - 1 ELSE @[t]]]
  /\ UNCHANGED <<linkVars, srvVars>>

timeout_start_ping_timer ==
  /\ handle_timeouts("start_ping_timer")
  /\ send_json_ok(hass)
  /\ hass' = start_ping_timer(remove_timeout(hass, "start_ping_timer"))
  /\ UNCHANGED <<linkVars, srvVars>>

timeout_data_received_timeout ==
  /\ handle_timeouts("data_received_timeout")
  /\ hass' = data_received_timeout(remove_timeout(hass, "data_received_timeout"))
  /\ UNCHANGED <<linkVars, srvVars>>

timeout_connect_websocket(ok) ==
  /\ handle_timeouts("connect_websocket")
  /\ hass.connects < MaxConns
  /\ hass' = connect_websocket(remove_timeout(hass, "connect_websocket"), ok)
  /\ UNCHANGED <<linkVars, srvVars>>

\* the proc auth_ok scheduled: to_savant("hass_websocket_connected,...")
timeout_connected_notice ==
  /\ handle_timeouts("connected_notice")
  /\ hass' = to_savant(remove_timeout(hass, "connected_notice"))
  /\ UNCHANGED <<linkVars, srvVars>>

\* The events of the socket @hass_ws.
\* read_chunk -> driver.parse -> on_message -> the :message handler
ws_message(m) ==
  /\ hass.up /\ hass.ws.readable /\ ~hass.ws.closed
  /\ hass' = [on_message(hass, m) EXCEPT !.authed = @ \/ m = TypeAuthOK]
  /\ UNCHANGED <<linkVars, srvVars>>

\* the driver reads a close frame: on_disconnect (lines 1418, 1218-1225)
\* closes the socket and raises :disconnect, which has no handler here
ws_disconnect ==
  /\ hass.up /\ hass.ws.readable /\ ~hass.ws.closed
  /\ hass' = [hass EXCEPT !.ws.readable = FALSE, !.ws.writable = FALSE,
                          !.ws.closed = TRUE]
  /\ UNCHANGED <<linkVars, srvVars>>

\* read_chunk fails (lines 1146-1159): on_disconnect, then on_error and the
\* :error handler
ws_error ==
  /\ hass.up /\ hass.ws.readable /\ ~hass.ws.closed
  /\ hass' = reconnect_websocket(
               [hass EXCEPT !.ws.readable = FALSE, !.ws.writable = FALSE,
                            !.ws.closed = TRUE])
  /\ UNCHANGED <<linkVars, srvVars>>

\* write_message drains the output (lines 1173-1190): on_empty registers the
\* socket for reading (line 1411), remove_writable
ws_wrote ==
  /\ hass.up /\ hass.ws.writable /\ ~hass.ws.closed
  /\ hass' = [hass EXCEPT !.ws.writable = FALSE, !.ws.readable = TRUE]
  /\ UNCHANGED <<linkVars, srvVars>>

\* write_chunk fails (lines 1161-1171): on_error and the :error handler, then
\* on_disconnect
ws_write_error ==
  /\ hass.up /\ hass.ws.writable /\ ~hass.ws.closed
  /\ hass' = [reconnect_websocket(hass)
                EXCEPT !.ws.readable = FALSE, !.ws.writable = FALSE,
                       !.ws.closed = TRUE]
  /\ UNCHANGED <<linkVars, srvVars>>

\* The same events of a socket @hass_ws held before connect_websocket
\* replaced it: its handlers are closures over this Hass.
old_wrote ==
  /\ hass.up /\ hass.old.writable
  /\ hass' = [hass EXCEPT !.old.writable = FALSE, !.old.readable = TRUE]
  /\ UNCHANGED <<linkVars, srvVars>>

old_error ==
  /\ hass.up /\ (hass.old.readable \/ hass.old.writable)
  /\ hass' = reconnect_websocket([hass EXCEPT !.old = NoSock])
  /\ UNCHANGED <<linkVars, srvVars>>

old_message(m) ==
  /\ hass.up /\ hass.old.readable
  /\ hass' = on_message(hass, m)
  /\ UNCHANGED <<linkVars, srvVars>>

\* from_savant, lines 709-721, with a request verb: send_hass_request ->
\* send_json
from_savant ==
  /\ hass.up /\ hass.client = "up"
  /\ send_json_ok(hass)
  /\ hass' = send_json(hass, TypeCallService)
  /\ UNCHANGED <<linkVars, srvVars>>

\* the downstream client goes away: read_chunk of its Wrapper fails and
\* on_disconnect closes the socket (lines 1146-1159, 1218-1225); nothing
\* tells the Hass object
client_close ==
  /\ hass.up /\ hass.client = "up"
  /\ hass' = [hass EXCEPT !.client = "closed"]
  /\ UNCHANGED <<linkVars, srvVars>>

NextHass ==
  \/ Elapse
  \/ timeout_start_ping_timer
  \/ timeout_data_received_timeout
  \/ \E ok \in BOOLEAN : timeout_connect_websocket(ok)
  \/ timeout_connected_notice
  \/ \E m \in FrameTypes : ws_message(m)
  \/ ws_disconnect
  \/ ws_error
  \/ ws_wrote
  \/ ws_write_error
  \/ old_wrote
  \/ old_error
  \/ \E m \in FrameTypes : old_message(m)
  \/ from_savant
  \/ client_close

(***************************************************************************)
(* The Go downstream gateway: savant.Server (src/unnamed/part_001) and the *)
(* filter / alias state of the one ha.Client it was built with             *)
(* (src/pkg/ha/client.go, lines 57-113).  main.go builds one ha.Client and *)
(* one Server (src/unnamed/part_000, lines 29-46); every event line        *)
(* reaches the sessions through Server.Broadcast.                          *)
(***************************************************************************)
Peers == {"p1", "p2", "p3"}
\* the address a peer connects from, and cfg.Whitelist
PeerIP == [p \in Peers |-> IF p = "p3" THEN "10.0.0.9" ELSE "10.0.0.1"]
Whitelist == <<"10.0.0.1">>

Entities == {"light.a", "light.kitchen"}
\* the lines Savant sends, split at the commas
Commands == {<<"state_filter">>, <<"state_filter", "state">>,
             <<"substitute_ids">>, <<"substitute_ids", "s1", "light.a">>,
             <<"subscribe_entity", "light.a">>,
             <<"switch_on", "s1">>, <<"bogus">>, <<"bogus", "s1">>}
\* a state_changed event for entity e whose new_state carries key k
Events == [entity : {"light.a"}, key : {"state", "brightness"}]

NoLine == [entity_id |-> "", substitute_id |-> "", attr_name |-> ""]
AllFilter == <<"all">>
NoSubs == [e \in Entities |-> ""]

\* a filter check that lets every key pass
includedWithFilter_always(f, key) == TRUE

\* includedWithFilter, client.go lines 67-80, on filter f
includedWithFilter(f, key) ==
  \/ Len(f) = 0
  \/ (Len(f) = 1 /\ f[1] = "all")
  \/ \E i \in DOMAIN f : f[i] = key

\* SetFilter adding the tokens to the filter it finds
SetFilter_merges(args) == IF Len(args) = 0 THEN AllFilter ELSE filter \o args

\* SetFilter, client.go lines 57-65: the filter it leaves
SetFilter(args) == IF Len(args) = 0 THEN AllFilter ELSE args

\* handleCommand, part_001 lines 104-112: subs[args[i+1]] = args[i] for
\* every complete pair; an entity without a pair has the substitute ""
subsOf(args) ==
  [e \in Entities |->
     IF \E i \in DOMAIN args : i % 2 = 0 /\ args[i] = e
       THEN LET last == CHOOSE i \in DOMAIN args :
                          /\ i % 2 = 0 /\ args[i] = e
                          /\ \A j \in DOMAIN args :
                               (j % 2 = 0 /\ args[j] = e) => j <= i
            IN  args[last - 1]
       ELSE ""]

\* the entity ids of the complete pairs (haIDs)
haIDsOf(args) == {args[i] : i \in {j \in DOMAIN args : j % 2 = 0}}

\* getSubstituteID, client.go lines 105-113, on map s
getSubstituteID(s, e) == s[e]

\* a map with no key (make(map[string]string))
NoIds == [a \in {} |-> ""]

\* SetSubstituteIDs with the reverse map left as it was
SetSubstituteIDs_keepsReverse(s) == {idSubstitutes}

\* SetSubstituteIDs, client.go lines 87-91: the reverse maps the loop
\* `for k, v := range subs { c.idSubstitutes[v] = k }` can leave.  The keys
\* are the substitute ids in use; when two entities carry the same
\* substitute id the entity ranged over last stays, and the order of a
\* range over a map is not fixed.
SetSubstituteIDs(s) ==
  LET used == {s[e] : e \in {x \in Entities : s[x] # ""}}
  IN  {r \in [used -> Entities] : \A a \in used : s[r[a]] = a}

\* ResolveID that resolves nothing
ResolveID_unresolved(r, id) == id

\* ResolveID, client.go lines 95-103, on reverse map r
ResolveID(r, id) == IF id \in DOMAIN r THEN r[id] ELSE id

\* the verbs of handleCommand that call callService(domain, service,
\* args[0], ...) (lines 173-360); the model follows these of them
Registry ==
  [switch_on  |-> [domain |-> "light", service |-> "turn_on"],
   switch_off |-> [domain |-> "light", service |-> "turn_off"],
   socket_on  |-> [domain |-> "switch", service |-> "turn_on"]]

\* sendSavantUpdate, client.go lines 393-417: the line for event ev under
\* filter f and map s, NoLine when the filter drops it
sendSavantUpdate(f, s, ev) ==
  IF includedWithFilter(f, ev.key)
    THEN [entity_id |-> ev.entity, substitute_id |-> getSubstituteID(s, ev.entity),
          attr_name |-> ev.key]
    ELSE NoLine

\* no event handled yet
NoEvent == [entity_id |-> ""]

\* NewServer / NewClient: no session, filter {"all"}, no substitutes; no
\* line emitted yet
NewSessions ==
  /\ sess = [p \in Peers |-> "none"]
  /\ clients = {}
  /\ filter = AllFilter
  /\ substituteIDs = NoSubs
  /\ sessFilter = [p \in Peers |-> AllFilter]
  /\ sessSubs = [p \in Peers |-> NoSubs]
  /\ delivered = [p \in Peers |-> NoLine]
  /\ expected = [p \in Peers |-> NoLine]
  /\ emitted = 0
  /\ bcLeft = 0
  /\ bcTodo = {}
  /\ lastLine = [p \in Peers |-> 0]
  /\ unread = [p \in Peers |-> 0]
  /\ idSubstitutes = NoIds
  /\ event = NoEvent
  /\ todo = <<>>
  /\ lines = <<>>

\* the same once Server.Start has bound its port (line 33)
InitSessions == NewSessions /\ listener = "listening"

\* NewServer with the whitelist of a configuration that names one address
InitSrv == InitSessions /\ whitelist = Whitelist /\ enableGeneric = FALSE

\* handleConnection, lines 56-80: the whitelist check
allowed(p) ==
  Len(whitelist) = 0 \/ \E i \in DOMAIN whitelist : whitelist[i] = PeerIP[p]

\* handleConnection, lines 73-76: access denied, the connection is closed
handleConnection_Denied(p) ==
  /\ running
  /\ listener = "listening"
  /\ sess[p] \in {"none", "closed"}
  /\ ~allowed(p)
  /\ sess' = [sess EXCEPT ![p] = "closed"]
  /\ UNCHANGED <<clients, filter, substituteIDs, sessFilter, sessSubs,
                 delivered, expected, gateVars, cmdVars, linkVars, hassVars, flatVars>>

\* handleConnection_Accept, but the whitelist is not consulted
handleConnection_Accept_noCheck(p) ==
  /\ running
  /\ listener = "listening"
  /\ sess[p] \in {"none", "closed"}
  /\ sess' = [sess EXCEPT ![p] = "open"]
  /\ clients' = clients \cup {p}
  /\ sessFilter' = [sessFilter EXCEPT ![p] = AllFilter]
  /\ sessSubs' = [sessSubs EXCEPT ![p] = NoSubs]
  /\ delivered' = [delivered EXCEPT ![p] = NoLine]
  /\ expected' = [expected EXCEPT ![p] = NoLine]
  /\ lastLine' = [lastLine EXCEPT ![p] = 0]
  /\ unread' = [unread EXCEPT ![p] = 0]
  /\ IF bcLeft > 0 THEN bcTodo' \in {bcTodo, bcTodo \cup {p}}
                   ELSE UNCHANGED bcTodo
  /\ UNCHANGED <<filter, substituteIDs, whitelist, listener, emitted, bcLeft, cmdVars,
                 linkVars, hassVars, flatVars>>

\* handleConnection, lines 78-80: s.clients[conn] = true.  A session starts
\* with an empty substitution map and the filter {"all"}.
handleConnection_Accept(p) ==
  /\ running
  /\ listener = "listening"
  /\ sess[p] \in {"none", "closed"}
  /\ allowed(p)
  /\ sess' = [sess EXCEPT ![p] = "open"]
  /\ clients' = clients \cup {p}
  /\ sessFilter' = [sessFilter EXCEPT ![p] = AllFilter]
  /\ sessSubs' = [sessSubs EXCEPT ![p] = NoSubs]
  /\ delivered' = [delivered EXCEPT ![p] = NoLine]
  /\ expected' = [expected EXCEPT ![p] = NoLine]
  \* a new connection: nothing written to it, nothing in its buffer; a
  \* Broadcast that is iterating s.clients may or may not come to it
  /\ lastLine' = [lastLine EXCEPT ![p] = 0]
  /\ unread' = [unread EXCEPT ![p] = 0]
  /\ IF bcLeft > 0 THEN bcTodo' \in {bcTodo, bcTodo \cup {p}}
                   ELSE UNCHANGED bcTodo
  /\ UNCHANGED <<filter, substituteIDs, whitelist, listener, emitted, bcLeft, cmdVars,
                 linkVars, hassVars, flatVars>>

\* the scanner ends: delete(s.clients, conn); conn.Close() (lines 57, 80-88)
handleConnection_Close(p) ==
  /\ running
  /\ sess[p] = "open"
  /\ sess' = [sess EXCEPT ![p] = "closed"]
  /\ clients' = clients \ {p}
  \* a Broadcast that is iterating s.clients does not come to it any more
  /\ bcTodo' = bcTodo \ {p}
  /\ UNCHANGED <<filter, substituteIDs, sessFilter, sessSubs, delivered,
                 expected, whitelist, listener, emitted, bcLeft, lastLine, unread,
                 cmdVars, linkVars, hassVars, flatVars>>

\* SendCommand of the shared client, client.go lines 208-212, as one step
\* (Spec follows its two steps); body is the rest of the command map
srv_SendCommand(t, body) ==
  /\ idCounter < MaxId /\ SendCommand_canSend
  /\ idCounter' = idCounter + 1
  /\ sendChan' = Append(sendChan, [type |-> t, id |-> idCounter + 1,
                                   pre |-> ~Authenticated, body |-> body])
  /\ UNCHANGED <<conn, sock, isAuth, reconnectChan, running, clPc, rl, rlCmd,
                 wl, wlMsg, wlConn, pl, plCmd, sc, scCmd, wire, authFrame,
                 authOks, subs, silence>>

\* SubscribeEntities without the return on an empty list
SubscribeEntities_always(entityIDs) ==
  srv_SendCommand("subscribe_entities", [entity_ids |-> entityIDs])

\* SubscribeEntities, client.go lines 220-228
SubscribeEntities(entityIDs) ==
  IF entityIDs = {} THEN UNCHANGED linkVars
                    ELSE srv_SendCommand("subscribe_entities",
                                         [entity_ids |-> entityIDs])

\* callService, part_001 lines 366-379 (service_data is not followed)
callService(domain, service, entityID) ==
  srv_SendCommand(TypeCallService,
                  [domain |-> domain, service |-> service,
                   target |-> [entity_id |-> entityID]])

\* an unknown verb that is passed upstream as a subscribe_events request
handleCommand_default_sends ==
  /\ srv_SendCommand("subscribe_events", <<>>)
  /\ UNCHANGED <<filter, substituteIDs, idSubstitutes, sessFilter, sessSubs>>

\* handleCommand, lines 360-362: the default case of the switch logs
\* "Unknown command"
handleCommand_default ==
  UNCHANGED <<filter, substituteIDs, idSubstitutes, sessFilter, sessSubs,
              linkVars>>

\* handleCommand, lines 90-364, for the line session p sent
handleCommand(p, parts) ==
  LET cmd == parts[1]
      args == Tail(parts)
      \* args[0] = s.haClient.ResolveID(args[0]) (lines 133-145)
      rargs == IF Len(args) > 0
                 THEN <<ResolveID(idSubstitutes, args[1])>> \o Tail(args)
                 ELSE args
  IN
  /\ running
  /\ sess[p] = "open"
  /\ CASE cmd = "substitute_ids" ->
            \* SetSubstituteIDs(subs); SubscribeEntities(haIDs)
            /\ substituteIDs' = subsOf(args)
            /\ idSubstitutes' \in SetSubstituteIDs(subsOf(args))
            /\ sessSubs' = [sessSubs EXCEPT ![p] = subsOf(args)]
            /\ SubscribeEntities(haIDsOf(args))
            /\ UNCHANGED <<filter, sessFilter>>
       [] cmd = "state_filter" ->
            /\ filter' = SetFilter(args)
            /\ sessFilter' = [sessFilter EXCEPT ![p] = SetFilter(args)]
            /\ UNCHANGED <<substituteIDs, idSubstitutes, sessSubs, linkVars>>
       [] cmd = "subscribe_entity" ->
            \* SubscribeEntities(args)
            /\ SubscribeEntities({args[i] : i \in DOMAIN args})
            /\ UNCHANGED <<filter, substituteIDs, idSubstitutes, sessFilter,
                           sessSubs>>
       [] cmd = "subscribe_events" ->
            /\ srv_SendCommand("subscribe_events", <<>>)
            /\ UNCHANGED <<filter, substituteIDs, idSubstitutes, sessFilter,
                           sessSubs>>
       [] cmd = "call_service" ->
            \* lines 153-172: domain := args[0]; service := args[1];
            \* entityID := args[2]
            /\ IF Len(rargs) >= 3
                 THEN callService(rargs[1], rargs[2], rargs[3])
                 ELSE UNCHANGED linkVars
            /\ UNCHANGED <<filter, substituteIDs, idSubstitutes, sessFilter,
                           sessSubs>>
       [] cmd \in DOMAIN Registry ->
            /\ IF Len(rargs) > 0
                 THEN callService(Registry[cmd].domain, Registry[cmd].service,
                                  rargs[1])
                 ELSE UNCHANGED linkVars
            /\ UNCHANGED <<filter, substituteIDs, idSubstitutes, sessFilter,
                           sessSubs>>
       [] OTHER ->
            handleCommand_default
  /\ UNCHANGED <<sess, clients, delivered, expected, gateVars, enableGeneric,
                 hassVars, flatVars>>

\* Broadcast, lines 49-54, of the line the shared client made of event ev
\* (handleMessage -> processEvent -> flattenAndSend -> sendSavantUpdate ->
\* onMessage): the line is written to every registered session.  expected
\* is the line the session's own filter and map give for the same event.
Broadcast(ev) ==
  /\ running
  /\ delivered' = [p \in Peers |->
                     IF p \in clients
                       THEN sendSavantUpdate(filter, substituteIDs, ev)
                       ELSE NoLine]
  /\ expected' = [p \in Peers |->
                    IF p \in clients
                      THEN sendSavantUpdate(sessFilter[p], sessSubs[p], ev)
                      ELSE NoLine]
  /\ UNCHANGED <<sess, clients, filter, substituteIDs, sessFilter, sessSubs,
                 gateVars, cmdVars, linkVars, hassVars, flatVars>>

NextSrv ==
  \/ \E p \in Peers : handleConnection_Denied(p)
  \/ \E p \in Peers : handleConnection_Accept(p)
  \/ \E p \in Peers : handleConnection_Close(p)
  \/ \E p \in Peers, parts \in Commands : handleCommand(p, parts)
  \/ \E ev \in Events : Broadcast(ev)


(***************************************************************************)
(* The way of a line from the upstream read loop to the downstream         *)
(* sockets: handleMessage -> processEvent -> flattenAndSend ->             *)
(* sendSavantUpdate -> onMessage (client.go lines 230-289, 393-417) ->     *)
(* Server.Broadcast (part_000 lines 29-33, part_001 lines 49-54).  All of  *)
(* it runs in the goroutine of readLoop; conn.Write has no deadline and    *)
(* returns when the kernel has taken the bytes.  Lines are numbered in the *)
(* order onMessage is called with them.                                    *)
(***************************************************************************)
\* the peers SpecGate and SpecAllow follow: p3 is let in by an empty
\* whitelist only
GatePeers == {"p1", "p3"}
\* the number of lines an event frame makes (a frame that makes none is
\* readLoop_Read)
EventLines == {1, 2}

\* Broadcast is entered with the next line: for conn := range s.clients
Broadcast_Enter(c, k) ==
  /\ emitted' = emitted + 1
  /\ bcLeft' = k
  /\ bcTodo' = clients
  /\ rl' = [rl EXCEPT ![c] = "broadcast"]

\* ReadMessage returns an event frame that makes k lines; the first is
\* handed to Broadcast
readLoop_Event(c, k) ==
  /\ running /\ rl[c] = "read"
  /\ conn # 0
  /\ emitted + k <= MaxLines
  /\ Broadcast_Enter(c, k)
  /\ silence' = -1
  /\ UNCHANGED <<conn, sock, isAuth, idCounter, sendChan, reconnectChan, running,
                 clPc, rlCmd, wl, wlMsg, wlConn, pl, plCmd, sc, scCmd, wire,
                 authFrame, authOks, subs>>
  /\ UNCHANGED <<sess, clients, filter, substituteIDs, sessFilter, sessSubs,
                 delivered, expected, whitelist, listener, lastLine, unread, cmdVars,
                 hassVars, flatVars>>

\* readLoop_Send, and the onMessage("hass_websocket_connected,...") that
\* follows SubscribeEvents in handleMessage (lines 245-249)
readLoop_Notify(c) ==
  /\ running /\ rl[c] = "send"
  /\ SendCommand_canSend
  /\ emitted < MaxLines
  /\ sendChan' = Append(sendChan, rlCmd)
  /\ subs' = subs + 1
  /\ Broadcast_Enter(c, 1)
  /\ UNCHANGED <<conn, sock, isAuth, idCounter, reconnectChan, running, clPc,
                 rlCmd, wl, wlMsg, wlConn, pl, plCmd, sc, scCmd, wire, authFrame,
                 authOks, silence>>
  /\ UNCHANGED <<sess, clients, filter, substituteIDs, sessFilter, sessSubs,
                 delivered, expected, whitelist, listener, lastLine, unread, cmdVars,
                 hassVars, flatVars>>

\* Broadcast_Write, but the line written is any line emitted so far
Broadcast_Write_anyLine(c, p) ==
  /\ running /\ rl[c] = "broadcast"
  /\ p \in bcTodo
  /\ unread[p] < SockBufCap
  /\ \E n \in 1..emitted : lastLine' = [lastLine EXCEPT ![p] = n]
  /\ unread' = [unread EXCEPT ![p] = unread[p] + 1]
  /\ bcTodo' = bcTodo \ {p}
  /\ UNCHANGED <<sess, clients, filter, substituteIDs, sessFilter, sessSubs,
                 delivered, expected, whitelist, listener, emitted, bcLeft, cmdVars,
                 linkVars, hassVars, flatVars>>

\* Broadcast, line 52: conn.Write([]byte(msg)) to connection p returns
Broadcast_Write(c, p) ==
  /\ running /\ rl[c] = "broadcast"
  /\ p \in bcTodo
  /\ unread[p] < SockBufCap
  /\ lastLine' = [lastLine EXCEPT ![p] = emitted]
  /\ unread' = [unread EXCEPT ![p] = unread[p] + 1]
  /\ bcTodo' = bcTodo \ {p}
  /\ UNCHANGED <<sess, clients, filter, substituteIDs, sessFilter, sessSubs,
                 delivered, expected, whitelist, listener, emitted, bcLeft, cmdVars,
                 linkVars, hassVars, flatVars>>

\* Broadcast returns: the next line of the frame is handed to Broadcast, or
\* handleMessage returns and the loop reads again
Broadcast_Return(c) ==
  /\ running /\ rl[c] = "broadcast"
  /\ bcTodo = {}
  /\ IF bcLeft > 1
       THEN /\ emitted' = emitted + 1
            /\ bcLeft' = bcLeft - 1
            /\ bcTodo' = clients
            /\ UNCHANGED rl
       ELSE /\ bcLeft' = 0
            /\ rl' = [rl EXCEPT ![c] = "read"]
            /\ UNCHANGED <<emitted, bcTodo>>
  /\ UNCHANGED <<conn, sock, isAuth, idCounter, sendChan, reconnectChan, running,
                 clPc, rlCmd, wl, wlMsg, wlConn, pl, plCmd, sc, scCmd, wire,
                 authFrame, authOks, subs, silence>>
  /\ UNCHANGED <<sess, clients, filter, substituteIDs, sessFilter, sessSubs,
                 delivered, expected, whitelist, listener, lastLine, unread, cmdVars,
                 hassVars, flatVars>>

\* the peer of session p reads a line from its socket
peer_Read(p) ==
  /\ running /\ sess[p] = "open"
  /\ unread[p] > 0
  /\ unread' = [unread EXCEPT ![p] = unread[p] - 1]
  /\ UNCHANGED <<sess, clients, filter, substituteIDs, sessFilter, sessSubs,
                 delivered, expected, whitelist, listener, emitted, bcLeft, bcTodo,
                 lastLine, cmdVars, linkVars, hassVars, flatVars>>

\* the goroutine of connection p is about to write s.clients:
\* s.clients[conn] = true (line 79) or delete(s.clients, conn) (line 80)
clients_Writes(p) == sess[p] = "open" \/ allowed(p)
\* the read loop is inside the range over s.clients (line 50)
clients_Ranges == \E c \in Conns : rl[c] = "broadcast"

\* s.clients is a plain map that the goroutines of handleConnection write
\* and the goroutine of readLoop ranges over, with no lock (lines 15-20,
\* 49-54, 79-80).  When a write coincides with another write or with the
\* iteration the Go runtime may stop the process ("fatal error: concurrent
\* map writes", "concurrent map iteration and map write"); when it does
\* not, the accesses take effect one after the other, which is what
\* handleConnection_Accept and handleConnection_Close follow.
clients_Coincides(p) ==
  clients_Ranges \/ \E q \in GatePeers \ {p} : clients_Writes(q)

\* the fatal error: the process is gone, and every socket it held with it
clients_Fatal ==
  /\ running' = FALSE
  /\ sess' = [q \in Peers |-> IF sess[q] = "open" THEN "closed" ELSE sess[q]]
  /\ clients' = {}
  /\ bcTodo' = {}
  /\ lastLine' = [q \in Peers |-> 0]
  /\ unread' = [q \in Peers |-> 0]
  /\ UNCHANGED <<conn, sock, isAuth, idCounter, sendChan, reconnectChan, clPc, rl,
                 rlCmd, wl, wlMsg, wlConn, pl, plCmd, sc, scCmd, wire, authFrame,
                 authOks, subs, silence>>
  /\ UNCHANGED <<filter, substituteIDs, sessFilter, sessSubs, delivered,
                 expected, whitelist, listener, emitted, bcLeft, cmdVars, hassVars, flatVars>>

\* line 79, s.clients[conn] = true, coincides with another access
handleConnection_Accept_race(p) ==
  /\ running
  /\ listener = "listening"
  /\ sess[p] \in {"none", "closed"}
  /\ allowed(p)
  /\ clients_Coincides(p)
  /\ clients_Fatal

\* the scanner of session p ends and its delete(s.clients, conn) (line 80)
\* coincides with another access
handleConnection_Close_race(p) ==
  /\ running
  /\ sess[p] = "open"
  /\ clients_Coincides(p)
  /\ clients_Fatal

NextGate ==
  \/ \E c \in Conns : connect_Dial(c)
  \/ connect_Start
  \/ connect_Fail
  \/ connectLoop_Retry
  \/ connectLoop_Wait
  \/ cleanup
  \/ \E c \in Conns, m \in FrameTypes : readLoop_Read(c, m)
  \/ \E c \in Conns : readLoop_Error(c)
  \/ \E c \in Conns : readLoop_Subscribe(c)
  \/ \E c \in Conns : readLoop_Notify(c)
  \/ \E c \in Conns : readLoop_Exit(c)
  \/ \E c \in Conns, k \in EventLines : readLoop_Event(c, k)
  \/ \E c \in Conns, p \in GatePeers : Broadcast_Write(c, p)
  \/ \E c \in Conns : Broadcast_Return(c)
  \/ \E p \in GatePeers : handleConnection_Denied(p)
  \/ \E p \in GatePeers : handleConnection_Accept(p)
  \/ \E p \in GatePeers : handleConnection_Close(p)
  \/ \E p \in GatePeers : peer_Read(p)
  \/ \E p \in GatePeers : handleConnection_Accept_race(p)
  \/ \E p \in GatePeers : handleConnection_Close_race(p)

Init ==
  /\ InitLink
  /\ hass = connect_websocket(initialize, TRUE)
  /\ InitSrv

Spec == Init /\ [][NextLink]_vars

InitH == InitLink /\ InitHass /\ InitSrv

SpecHass == InitH /\ [][NextHass]_vars

SpecSrv == Init /\ [][NextSrv]_vars

\* config.Load (config.go lines 53-63) leaves cfg.Whitelist empty when
\* client_ip_whitelist names no address
InitGate ==
  /\ InitLink
  /\ hass = connect_websocket(initialize, TRUE)
  /\ InitSessions
  /\ whitelist \in {<<>>, Whitelist}
  /\ enableGeneric = FALSE

SpecGate == InitGate /\ [][NextGate]_vars

\* the sessions, their commands and the events, under either whitelist
NextAllow ==
  \/ \E p \in GatePeers : handleConnection_Denied(p)
  \/ \E p \in GatePeers : handleConnection_Accept(p)
  \/ \E p \in GatePeers : handleConnection_Close(p)
  \/ \E p \in GatePeers, parts \in Commands : handleCommand(p, parts)
  \/ \E ev \in Events : Broadcast(ev)

SpecAllow == InitGate /\ [][NextAllow]_vars

\* the session and the lines SpecCmd follows
CmdPeers == {"p1"}
CmdCommands ==
  {<<"substitute_ids">>, <<"substitute_ids", "K1">>,
   <<"substitute_ids", "K1", "light.kitchen">>,
   <<"substitute_ids", "K2", "light.a">>,
   <<"substitute_ids", "K1", "light.kitchen", "K2", "light.a">>,
   <<"substitute_ids", "K1", "light.kitchen", "K1", "light.a">>,
   <<"substitute_ids", "K1", "light.a", "K2", "light.a">>,
   <<"switch_on">>, <<"switch_on", "K1">>, <<"switch_on", "light.kitchen">>,
   <<"switch_off", "K2">>, <<"socket_on", "K3">>,
   <<"call_service", "light", "turn_on">>,
   <<"call_service", "light", "turn_on", "light.a">>,
   <<"call_service", "light", "turn_on", "K2">>,
   <<"substitute_ids", "light", "light.kitchen">>,
   <<"bogus", "K1">>}

\* NewServer with either value of enable_generic_call_service (config.go
\* line 12)
InitCmd ==
  /\ InitLink
  /\ hass = connect_websocket(initialize, TRUE)
  /\ InitSessions
  /\ whitelist = Whitelist
  /\ enableGeneric \in BOOLEAN

NextCmd ==
  \/ \E p \in CmdPeers : handleConnection_Accept(p)
  \/ \E p \in CmdPeers : handleConnection_Close(p)
  \/ \E p \in CmdPeers, parts \in CmdCommands : handleCommand(p, parts)

SpecCmd == InitCmd /\ [][NextCmd]_vars

(***************************************************************************)
(* The translation of a state_changed event into lines: processEvent ->    *)
(* flattenAndSend -> processMap -> sendSavantUpdate (client.go lines       *)
(* 264-289, 325-417).  A JSON value is what json.Unmarshal leaves in an    *)
(* interface{}: nil, a float64, a string, a []interface{} or a             *)
(* map[string]interface{}.  A text is the sequence of its pieces; the      *)
(* text fmt.Sprintf makes is the concatenation of the pieces.              *)
(***************************************************************************)
Nil == [t |-> "nil"]
Num(n) == [t |-> "num", n |-> n]
Str(x) == [t |-> "str", s |-> x]
List(q) == [t |-> "list", items |-> q]
Map(m) == [t |-> "map", m |-> m]
\* a string the code has built (the joined elements of a list, the merged
\* attributes)
Text(q) == [t |-> "text", toks |-> q]
\* the key is not in the map
Absent == [t |-> "absent"]

\* strings.Join(elems, sep), on texts
RECURSIVE Join(_, _)
Join(elems, sep) ==
  IF Len(elems) = 0 THEN <<>>
  ELSE IF Len(elems) = 1 THEN elems[1]
  ELSE elems[1] \o <<sep>> \o Join(Tail(elems), sep)

\* the decimal numeral of a small float64 that is a whole number
Numeral(n) == <<"0", "1", "2", "3", "4", "5", "6", "7", "8", "9">>[n + 1]

\* the orders in which `for k, v := range m` can come to the keys of m
Orders(m) ==
  {q \in [1..Cardinality(DOMAIN m) -> DOMAIN m] :
     \A i, j \in DOMAIN q : i # j => q[i] # q[j]}

\* fmt.Sprintf("%v", v): a map is printed with its keys sorted; the maps
\* the model nests have one key
RECURSIVE Sprintf_v(_)
Sprintf_v(v) ==
  CASE v.t = "nil"  -> <<"<nil>">>
    [] v.t = "num"  -> <<Numeral(v.n)>>
    [] v.t = "str"  -> <<v.s>>
    [] v.t = "text" -> v.toks
    [] v.t = "list" ->
         <<"[">> \o Join([i \in DOMAIN v.items |-> Sprintf_v(v.items[i])], " ")
                 \o <<"]">>
    [] v.t = "map"  ->
         LET q == CHOOSE o \in Orders(v.m) : TRUE
         IN  <<"map[">>
               \o Join([i \in DOMAIN q |-> <<q[i], ":">> \o Sprintf_v(v.m[q[i]])],
                       " ")
               \o <<"]">>

\* sendSavantUpdate without the hack for brightness
WireMessage_raw(f, s, entityID, parents, attrName, value) ==
  IF value.t = "nil" \/ ~includedWithFilter(f, attrName)
    THEN <<>>
    ELSE <<[entity_id |-> entityID,
            substitute_id |-> getSubstituteID(s, entityID),
            parent_keys |-> Join([i \in DOMAIN parents |-> <<parents[i]>>], "_"),
            attr_name |-> attrName,
            attr_value |-> Sprintf_v(value)]>>

\* sendSavantUpdate, lines 393-417, with the parents and the value: the
\* lines it hands to onMessage, none or one
WireMessage(f, s, entityID, parents, attrName, value) ==
  IF value.t = "nil" \/ ~includedWithFilter(f, attrName)
    THEN <<>>
    ELSE LET \* the hack for brightness: a float64 1 or 2 becomes 3
             val == IF attrName = "brightness" /\ value.t = "num"
                       /\ value.n \in {1, 2}
                      THEN Num(3) ELSE value
         IN  <<[entity_id |-> entityID,
                substitute_id |-> getSubstituteID(s, entityID),
                parent_keys |-> Join([i \in DOMAIN parents |-> <<parents[i]>>], "_"),
                attr_name |-> attrName,
                attr_value |-> Sprintf_v(val)]>>

\* processMap, lines 343-391, on map data ranged over in the given order
RECURSIVE processMap(_, _, _, _, _, _)
RECURSIVE processMap_range(_, _, _, _, _, _, _)

\* the body of the range loop for the keys order[i], order[i+1], ...
processMap_range(f, s, entityID, data, parents, order, i) ==
  IF i > Len(order) THEN <<>>
  ELSE
    LET k == order[i]
        v == data[k]
        sent ==
          IF ~includedWithFilter(f, k) THEN <<>>
          ELSE CASE v.t = "map" ->
                      processMap(f, s, entityID, v.m, parents \o <<k>>,
                                 CHOOSE o \in Orders(v.m) : TRUE)
                 [] v.t = "list" ->
                      WireMessage(f, s, entityID, parents \o <<k>>, k,
                        Text(Join([j \in DOMAIN v.items |-> Sprintf_v(v.items[j])],
                                  ",")))
                 [] OTHER ->
                      WireMessage(f, s, entityID, parents \o <<k>>, k, v)
    IN  sent \o processMap_range(f, s, entityID, data, parents, order, i + 1)

\* mergedAttrs: "k:v" of every key, in the order of the range
mergedAttrs(data, order) ==
  Join([i \in DOMAIN order |-> <<order[i], ":">> \o Sprintf_v(data[order[i]])], ",")

processMap(f, s, entityID, data, parents, order) ==
  processMap_range(f, s, entityID, data, parents, order, 1)
    \o (IF includedWithFilter(f, "attributes")
          THEN WireMessage(f, s, entityID, parents \o <<"attributes">>, entityID,
                           Text(mergedAttrs(data, order)))
          ELSE <<>>)

\* flattenAndSend, lines 325-341, on new_state data
flattenAndSend(f, s, data, order) ==
  (IF data.state.t # "absent"
     THEN WireMessage(f, s, data.entity_id, <<>>, "state", data.state)
     ELSE <<>>)
  \o (IF data.attributes.t = "map"
        THEN processMap(f, s, data.entity_id, data.attributes.m,
                        <<"attributes">>, order)
        ELSE <<>>)

\* the keys and values of the attributes the model follows
AttrKeys == {"brightness", "color"}
AttrValues ==
  [brightness |-> {Nil, Num(1), Num(2), Num(5), Map([r |-> Num(1)])},
   color |-> {Nil, Num(2), Str("red"), List(<<Num(1), Str("b")>>),
             List(<<Map([r |-> Num(1)]), Map([r |-> Num(2)])>>)}]
\* the attributes mappings: every key absent or with one of its values
AttrMaps ==
  {Map(m) : m \in UNION {{f \in [D -> UNION {AttrValues[k] : k \in AttrKeys}] :
                              \A k \in D : f[k] \in AttrValues[k]} :
                           D \in SUBSET AttrKeys}}
\* the new_state of a state_changed event: with a state string and any of
\* the attributes mappings, or with no state (absent or null) and no or
\* one attribute
StateEvents ==
  [entity_id : {"light.a"}, state : {Str("on")},
   attributes : {Absent} \cup AttrMaps]
    \cup [entity_id : {"light.a"}, state : {Absent, Nil},
          attributes : {Nil, Map([color |-> Str("red")])}]
\* the arguments of a state_filter line
Filters ==
  {AllFilter, <<"state">>, <<"brightness">>, <<"color", "state">>,
   <<"attributes">>, <<"r">>, <<"all", "color">>}

\* the state_filter and substitute_ids lines a session sends
FlatCommands ==
  {<<"state_filter">> \o f : f \in Filters \cup {<<>>}}
    \cup {<<"substitute_ids", "K1", "light.a">>}

InitFlat ==
  /\ InitLink
  /\ hass = connect_websocket(initialize, TRUE)
  /\ InitSessions
  /\ whitelist = Whitelist /\ enableGeneric = FALSE

\* processEvent, lines 264-281, of a state_changed event with new_state data:
\* the lines flattenAndSend hands to onMessage
processEvent(data, order) ==
  /\ running
  /\ event' = data
  /\ UNCHANGED todo
  /\ lines' = flattenAndSend(filter, substituteIDs, data, order)
  /\ UNCHANGED <<sess, clients, filter, substituteIDs, sessFilter, sessSubs,
                 delivered, expected, gateVars, cmdVars, linkVars, hassVars>>


\* parseService, lines 291-322, on the data of a call_service event: the
\* lines handed to onMessage
parseService(data) ==
  LET serviceData == data.service_data
      v == IF serviceData.t = "map" /\ "entity_id" \in DOMAIN serviceData.m
             THEN serviceData.m["entity_id"] ELSE Absent
      \* entity_id can be a string or an array; only the strings of an
      \* array are kept
      entities ==
        CASE v.t = "str"  -> <<v.s>>
          [] v.t = "list" ->
               LET strs == SelectSeq(v.items, LAMBDA e : e.t = "str")
               IN  [i \in DOMAIN strs |-> strs[i].s]
          [] OTHER -> <<>>
      service == IF data.service.t = "str" THEN data.service.s ELSE ""
      domain == IF data.domain.t = "str" THEN data.domain.s ELSE ""
  IN  IF serviceData.t # "map" THEN <<>>
      ELSE [i \in DOMAIN entities |->
              [type |-> "call_service", entity |-> entities[i],
               service |-> service, domain |-> domain]]

\* the values of service_data.entity_id
ServiceTargets ==
  {Absent, Nil, Str("light.a"), List(<<>>), List(<<Str("light.a")>>),
   List(<<Str("light.a"), Str("light.kitchen")>>),
   List(<<Str("light.kitchen"), Str("light.a")>>),
   List(<<Str("light.a"), Str("light.a")>>)}
\* the data of a call_service event
ServiceEvents ==
  [service_data : {Map([entity_id |-> v]) : v \in ServiceTargets \ {Absent}}
                    \cup {Map([code |-> Num(1)]), Absent},
   service : {Str("turn_on")}, domain : {Str("light")}]

\* processEvent, lines 282-288, of a call_service event
processEvent_call_service(data) ==
  /\ running
  /\ event' = data
  /\ UNCHANGED todo
  /\ lines' = parseService(data)
  /\ UNCHANGED <<sess, clients, filter, substituteIDs, sessFilter, sessSubs,
                 delivered, expected, gateVars, cmdVars, linkVars, hassVars>>

NextFlat ==
  \/ \E data \in ServiceEvents : processEvent_call_service(data)
  \/ \E p \in CmdPeers : handleConnection_Accept(p)
  \/ \E p \in CmdPeers, parts \in FlatCommands : handleCommand(p, parts)
  \/ \E data \in StateEvents :
       \E order \in (IF data.attributes.t = "map"
                       THEN Orders(data.attributes.m) ELSE {<<>>}) :
         processEvent(data, order)

SpecFlat == InitFlat /\ [][NextFlat]_vars

(***************************************************************************)
(* The reactor implementation's translation of a state_changed event:      *)
(* HassMessageParsingMethods (part_000 lines 150-313) with the filter and  *)
(* the alias hashes of class Hass (lines 677-743).  A Ruby Hash keeps the  *)
(* order in which its keys were inserted; it is the sequence of its       *)
(* [k, v] pairs.                                                           *)
(***************************************************************************)
\* Hash#[]: the value of key k, or "" for nil
hash_get(h, k) ==
  IF \E i \in DOMAIN h : h[i].k = k
    THEN h[CHOOSE i \in DOMAIN h : h[i].k = k].v
    ELSE ""

\* Hash#[]=: the value of an existing key is replaced in place, a new key
\* is appended
hash_set(h, k, v) ==
  IF \E i \in DOMAIN h : h[i].k = k
    THEN [i \in DOMAIN h |-> IF h[i].k = k THEN [k |-> k, v |-> v] ELSE h[i]]
    ELSE Append(h, [k |-> k, v |-> v])

\* Hash#key: the first key inserted whose value is v, or "" for nil
hash_key(h, v) ==
  IF \E i \in DOMAIN h : h[i].v = v
    THEN h[CHOOSE i \in DOMAIN h :
             h[i].v = v /\ \A j \in DOMAIN h : h[j].v = v => i <= j].k
    ELSE ""

\* Object#inspect and Object#to_s of a parsed JSON value
RECURSIVE inspect(_)
inspect(v) ==
  CASE v.t = "nil"  -> <<"nil">>
    [] v.t = "num"  -> <<Numeral(v.n)>>
    [] v.t = "str"  -> <<"\"", v.s, "\"">>
    [] v.t = "text" -> <<"\"">> \o v.toks \o <<"\"">>
    [] v.t = "list" ->
         <<"[">> \o Join([i \in DOMAIN v.items |-> inspect(v.items[i])], ", ")
                 \o <<"]">>
    [] v.t = "map"  ->
         LET q == CHOOSE o \in Orders(v.m) : TRUE
         IN  <<"{">>
               \o Join([i \in DOMAIN q |->
                          <<"\"", q[i], "\"", "=>">> \o inspect(v.m[q[i]])], ", ")
               \o <<"}">>

to_s(v) ==
  CASE v.t = "nil"  -> <<>>
    [] v.t = "str"  -> <<v.s>>
    [] v.t = "text" -> v.toks
    [] OTHER        -> inspect(v)

\* included_with_filter?, lines 197-200
included_with_filter(h, primary_key) ==
  \/ Len(h.filter) = 0
  \/ h.filter = <<"all">>
  \/ \E i \in DOMAIN h.filter : h.filter[i] = primary_key

\* update_hass_data and update?, lines 227-257: the lines handed to
\* to_savant, none or one
update_hass_data(h, entity_id, parents, attr_name, value) ==
  IF value.t = "nil" \/ ~included_with_filter(h, attr_name)
    THEN <<>>
    ELSE LET val == IF attr_name = "brightness" /\ value.t = "num"
                       /\ value.n \in {1, 2}
                      THEN Num(3) ELSE value
         IN  <<[entity_id |-> entity_id,
                substitute_id |-> hash_get(h.id_substitute, entity_id),
                parent_keys |-> Join([i \in DOMAIN parents |-> <<parents[i]>>], "_"),
                attr_name |-> attr_name,
                attr_value |-> to_s(val)]>>

\* update_with_hash, lines 259-276, on hash msg_hash whose keys were
\* inserted in the given order
RECURSIVE update_with_hash_map(_, _, _, _, _, _)
update_with_hash_map(h, parent_key, msg_hash, parents, order, i) ==
  IF i > Len(order) THEN <<>>
  ELSE (IF included_with_filter(h, order[i])
          THEN update_hass_data(h, parent_key, parents \o <<order[i]>>,
                                order[i], msg_hash[order[i]])
          ELSE <<>>)
       \o update_with_hash_map(h, parent_key, msg_hash, parents, order, i + 1)

update_with_hash(h, parent_key, msg_hash, parents, order) ==
  update_with_hash_map(h, parent_key, msg_hash, parents, order, 1)
    \o (IF included_with_filter(h, "attributes")
          THEN update_hass_data(h, parent_key, parents \o <<"attributes">>,
                 parent_key,
                 Text(Join([i \in DOMAIN order |->
                              <<order[i], ":">> \o to_s(msg_hash[order[i]])], ",")))
          ELSE <<>>)

\* parse_state, lines 202-221, on a message with an entity_id
parse_state(h, message, order) ==
  LET \* eid = @substitute_id.key(eid) || eid
      found == hash_key(h.substitute_id, message.entity_id)
      eid == IF found # "" THEN found ELSE message.entity_id
  IN  (IF message.state.t # "absent"
         THEN update_hass_data(h, eid, <<>>, "state", message.state)
         ELSE <<>>)
      \o (IF message.attributes.t = "map"
            THEN update_with_hash(h, eid, message.attributes.m,
                                  <<"attributes">>, order)
            ELSE <<>>)

\* substitute_ids, lines 731-737, up to the call of subscribe_entities, on
\* complete pairs with a non-empty second element
RECURSIVE substitute_ids(_, _)
substitute_ids(h, params) ==
  IF Len(params) < 2 THEN h
  ELSE substitute_ids(
         [h EXCEPT !.substitute_id = hash_set(@, params[1], params[2]),
                   !.id_substitute = hash_set(@, params[2], params[1])],
         SubSeq(params, 3, Len(params)))

\* the pairs of a substitute_ids line the model sends to a Hass object
ParseParams ==
  {<<"K1", "light.a">>, <<"K2", "light.a">>, <<"K1", "light.kitchen">>}
\* the filters it sends
ParseFilters == {<<>>, <<"all">>, <<"state">>, <<"color", "state">>}

\* from_savant, lines 709-721, with a substitute_ids line: substitute_ids
\* and subscribe_entities(@id_substitute.keys) -> send_json
from_savant_substitute_ids(params) ==
  /\ hass.up /\ hass.client = "up"
  /\ send_json_ok(hass)
  /\ hass' = send_json(substitute_ids(hass, params), "subscribe_entities")
  /\ UNCHANGED <<linkVars, srvVars>>

\* from_savant with a state_filter line: @filter = params
from_savant_state_filter(params) ==
  /\ hass.up /\ hass.client = "up"
  /\ hass' = [hass EXCEPT !.filter = params]
  /\ UNCHANGED <<linkVars, srvVars>>

\* handle_hash -> parse_event -> parse_state, lines 843-844, 165 and
\* 202-221, of a state_changed event with new_state message
hass_parse_state(message, order) ==
  /\ hass.up /\ hass.client = "up"
  /\ event' = message
  /\ UNCHANGED todo
  /\ lines' = parse_state(hass, message, order)
  /\ UNCHANGED <<sess, clients, filter, substituteIDs, sessFilter, sessSubs,
                 delivered, expected, gateVars, cmdVars, linkVars, hassVars>>


\* parse_service, lines 188-195: the lines it returns
parse_service(data) ==
  LET sd == data.service_data
      v == IF sd.t = "map" /\ "entity_id" \in DOMAIN sd.m
             THEN sd.m["entity_id"] ELSE Nil
      \* Array(sd['entity_id'])
      entities == IF v.t = "list" THEN v.items ELSE <<v>>
  IN  IF v.t = "nil" THEN <<>>
      ELSE [i \in DOMAIN entities |->
              [type |-> "call_service", entity |-> to_s(entities[i]),
               service |-> to_s(data.service), domain |-> to_s(data.domain)]]

\* handle_hash -> parse_event -> parse_service, lines 843-844 and 166, of a
\* call_service event: the array parse_service returns is the value of
\* parse_event, which handle_hash and the :message handler drop; nothing is
\* handed to to_savant
hass_parse_service(data) ==
  /\ hass.up /\ hass.client = "up"
  /\ event' = data
  /\ UNCHANGED todo
  /\ LET returned == parse_service(data)
     IN  lines' = <<>>
  /\ UNCHANGED <<sess, clients, filter, substituteIDs, sessFilter, sessSubs,
                 delivered, expected, gateVars, cmdVars, linkVars, hassVars>>

InitParse ==
  /\ InitLink
  /\ hass = connect_websocket(initialize, TRUE)
  /\ InitSrv

NextParse ==
  \/ \E data \in ServiceEvents : hass_parse_service(data)
  \/ \E params \in ParseParams : from_savant_substitute_ids(params)
  \/ \E params \in ParseFilters : from_savant_state_filter(params)
  \/ \E message \in StateEvents :
       \E order \in (IF message.attributes.t = "map"
                       THEN Orders(message.attributes.m) ELSE {<<>>}) :
         hass_parse_state(message, order)

SpecParse == InitParse /\ [][NextParse]_vars


(***************************************************************************)
(* The claims about the Go UpstreamLink, checked under Spec.               *)
(***************************************************************************)
\* the read loop of the current connection is running
ReadLoopAlive == conn # 0 /\ rl[conn] \in {"read", "subscribe", "send"}

\* C1: the link never stops trying to be connected: once the connection is
\* lost (its read loop has ended) a new connect() eventually follows.  A state
\* in which connectLoop waits on reconnectChan, the channel is empty and no
\* read loop is left to send on it is one from which no connect() ever
\* follows: the claim says no such state is reached while the process runs.
C1_LinkNeverStuck ==
  running => ~(/\ clPc = "wait"
               /\ reconnectChan = 0
               /\ \A c \in Conns : rl[c] \in {"none", "done"})

\* C2: a command submitted while the link is not Authenticated is buffered:
\* it is written only to a connection whose auth_ok has been handled, and
\* such commands are written in the order they were submitted (the order of
\* their ids).
C2_BufferedUntilAuth ==
  /\ \A i \in DOMAIN wire : wire[i].pre => wire[i].authed
  /\ \A i, j \in DOMAIN wire :
       (i < j /\ wire[i].pre /\ wire[j].pre) => wire[i].id < wire[j].id

\* C3: the ids of the requests written to the upstream socket are strictly
\* increasing in the order the requests are written.
C3_IdsIncreasing ==
  \A i, j \in DOMAIN wire : i < j => wire[i].id < wire[j].id

C5_Inv ==
  \A c \in Conns :
    /\ (rl[c] \in {"read", "subscribe", "send"} /\ authOks = 0) => ~isAuth
    /\ (rl[c] \in {"read", "subscribe", "send"} /\ authOks > 0) => isAuth
    /\ rl[c] = "read" => subs = authOks
    /\ rl[c] \in {"subscribe", "send"} => subs = authOks - 1
    /\ rl[c] = "send" => rlCmd.type = "subscribe_events"

C6_AuthInvalidReconnects ==
  [][\A c \in Conns :
       readLoop_Read(c, TypeAuthInvalid) => rl'[c] = "exit"]_vars

\* C7: while Authenticated, when more than PongWait seconds have passed since
\* a ping was written and no frame has come in, the link has left the
\* connection (it is Reconnecting): its read loop is no longer reading.
C7_KeepaliveTimeout ==
  (running /\ Authenticated /\ silence > PongWait) => ~ReadLoopAlive

(***************************************************************************)
(* The claims about class Hass, checked under SpecHass.                    *)
(***************************************************************************)
\* C8, the state part: at most one connect_websocket is scheduled at a time,
\* one is scheduled exactly while @reconnecting is set, and every call of
\* reconnect_websocket that passed the guard is matched by one call of
\* connect_websocket, made or pending.
C8_Inv ==
  /\ hass.scheduled <= 1
  /\ hass.reconnecting <=> hass.scheduled = 1
  /\ hass.reconnecting <=> hass.timeouts["connect_websocket"] >= 0
  /\ hass.connects = 1 + hass.triggers - hass.scheduled

\* C8: reconnection is exactly-once: while a reconnect is pending a further
\* call of reconnect_websocket (response-timeout expiry, socket event)
\* schedules no other connect_websocket and does not move the pending one,
\* so one expiry is followed by exactly one connect attempt.
C8_ReconnectOnce ==
  /\ []C8_Inv
  /\ [][(hass.reconnecting /\ hass'.reconnecting) =>
          /\ hass'.scheduled = hass.scheduled
          /\ hass'.timeouts["connect_websocket"]
               <= hass.timeouts["connect_websocket"]]_vars

\* C8 witness: a trigger was accepted, another came while the reconnect was
\* pending, and one connect attempt followed.
C8_Witness ==
  /\ hass.up /\ ~hass.reconnecting /\ hass.ignored
  /\ hass.triggers = 1 /\ hass.connects = 2

\* C9, the state part: once a message has come in while the response-timeout
\* of the last ping was armed, that timeout is not armed.
C9_Inv == hass.answered => hass.timeouts["data_received_timeout"] = -1

\* C9, as claimed: every message that comes in while the response-timeout is
\* armed disarms it and leaves the next ping armed PingInterval seconds later.
C9_EveryMessageArmsPing ==
  [][(hass.timeouts["data_received_timeout"] >= 0 /\ hass'.answered) =>
       /\ hass'.timeouts["data_received_timeout"] = -1
       /\ hass'.timeouts["start_ping_timer"] = PingInterval]_vars

\* C9, amended: handling an inbound message of any type disarms the
\* response-timeout and, unless the handler tears the bridge down
\* (cleanup_sockets), leaves the next ping armed PingInterval seconds later;
\* data_received_timeout never fires for a ping that was followed by a
\* message.
C9_MessageDisarmsTimeout ==
  /\ []C9_Inv
  /\ [][(hass.timeouts["data_received_timeout"] >= 0 /\ hass'.answered) =>
          /\ hass'.timeouts["data_received_timeout"] = -1
          /\ hass'.hass_ws # 0 =>
               hass'.timeouts["start_ping_timer"] = PingInterval]_vars
  /\ [][timeout_data_received_timeout => ~hass.answered]_vars

\* C9 witness: a ping was transmitted, a message came in while its
\* response-timeout was armed, and the next ping is PingInterval away.
C9_Witness ==
  /\ hass.up /\ hass.answered /\ ~hass.auth_required /\ hass.id >= 1
  /\ hass.timeouts["start_ping_timer"] = PingInterval
  /\ hass.timeouts["data_received_timeout"] = -1

(***************************************************************************)
(* The claim about the Go gateway, checked under SpecSrv.                  *)
(***************************************************************************)
\* C10: per-session isolation: the filter and the substitution map applied
\* to the events of a registered session are the ones this session set
\* itself since it was accepted (filter {"all"} and the empty map before
\* that), and so is the line delivered to it.
C10_SessionIsolation ==
  \A p \in clients :
    /\ filter = sessFilter[p]
    /\ substituteIDs = sessSubs[p]
    /\ delivered[p] = expected[p]

(***************************************************************************)
(* The claims about the sessions of the Go gateway.                        *)
(***************************************************************************)
\* the peer's address is in the whitelist, or the whitelist is empty
C11_Passes(p) ==
  whitelist = <<>> \/ PeerIP[p] \in {whitelist[i] : i \in DOMAIN whitelist}

\* C11 (SpecAllow): allow-list enforcement.  A connection whose peer
\* address is not in a non-empty whitelist is never registered, its scanner
\* never runs, no line is written to it and no command of it is dispatched;
\* every connection in s.clients passed the check; and with an empty
\* whitelist a connection that is taken up ends registered, never denied.
C11_AllowList ==
  /\ [](\A p \in Peers :
          (p \in clients \/ sess[p] = "open" \/ delivered[p] # NoLine)
            => C11_Passes(p))
  /\ [][\A p \in GatePeers :
          /\ (\E parts \in Commands : handleCommand(p, parts)) => C11_Passes(p)
          /\ (whitelist = <<>> /\ sess[p] # "open" /\ sess'[p] # sess[p])
               => (sess'[p] = "open" /\ p \in clients')]_vars

\* C11 witness: the whitelist names one address; p3, which comes from
\* another, was turned away and nothing was written to it, while the line
\* of an event was written to the registered p1
C11_Witness ==
  /\ whitelist # <<>>
  /\ sess["p3"] = "closed" /\ "p3" \notin clients
  /\ delivered["p3"] = NoLine
  /\ "p1" \in clients /\ delivered["p1"] # NoLine

\* C13 (SpecGate): when the socket of one session is closed and its
\* handler tears the session down, exactly that session goes: it leaves
\* s.clients and its socket is closed, every other session stays as it
\* was, registered and open, and the upstream connection and its state are
\* unchanged.
C13_ExactlyThatSession ==
  [][\A p \in GatePeers :
       (handleConnection_Close(p) \/ handleConnection_Close_race(p)) =>
         /\ sess'[p] = "closed" /\ p \notin clients'
         /\ \A q \in Peers \ {p} :
              sess'[q] = sess[q] /\ (q \in clients' <=> q \in clients)
         /\ UNCHANGED <<conn, sock, isAuth, running>>]_vars

\* the steps in which the upstream link is lost and made again: the read
\* error and the exit of the read loop, the token taken, cleanup, the Dial
\* (or its failure and the retry) and connect starting the loops
C14_LinkStep ==
  \/ \E c \in Conns : readLoop_Error(c) \/ readLoop_Exit(c) \/ connect_Dial(c)
  \/ connectLoop_Wait \/ cleanup \/ connect_Fail \/ connectLoop_Retry
  \/ connect_Start

C15_ReadLoopNeverBlocked ==
  \A c \in Conns :
    running =>
      /\ rl[c] = "broadcast" =>
           (bcTodo = {} \/ \E p \in bcTodo : unread[p] < SockBufCap)
      /\ rl[c] = "send" => SendCommand_canSend

\* C16 (SpecGate): per session, lines are written in the order they were
\* emitted: a line written to a connection is the line Broadcast was
\* called with last, it is later than every line written to that
\* connection before, and no line is emitted while the Broadcast of the
\* one before it is still writing.
C16_EmissionOrder ==
  /\ [](\A p \in Peers : lastLine[p] <= emitted)
  /\ [][/\ \A p \in GatePeers :
            (lastLine'[p] # lastLine[p] /\ lastLine'[p] # 0)
              => (lastLine'[p] > lastLine[p] /\ lastLine'[p] = emitted
                    /\ emitted' = emitted)
        /\ emitted' # emitted => (emitted' = emitted + 1 /\ bcTodo = {})]_vars

\* C16 witness: after a reconnect line 2 is being broadcast: it was written
\* to p1, and p3, which holds line 1, is still to be written
C16_Witness ==
  /\ Reconnected
  /\ emitted = 2
  /\ lastLine["p1"] = 2
  /\ lastLine["p3"] = 1 /\ "p3" \in bcTodo

(***************************************************************************)
(* The claims about the commands of a session, checked under SpecCmd.      *)
(***************************************************************************)
\* C12: the passthrough verb call_service issues an upstream request only
\* when enable_generic_call_service is true: with the flag false, handling
\* a call_service line puts no command on sendChan.
C12_GenericGated ==
  [][\A p \in CmdPeers :
       \A parts \in {c \in CmdCommands : c[1] = "call_service"} :
         (handleCommand(p, parts) /\ ~enableGeneric) => UNCHANGED sendChan]_vars

\* the complete (alias, entity) pairs of a substitute_ids line
C18_Pairs(parts) ==
  {<<parts[i], parts[i + 1]>> : i \in {j \in 2..(Len(parts) - 1) : j % 2 = 0}}
\* the substitute_ids lines whose pairs have distinct aliases and entities
C18_Lines ==
  {c \in CmdCommands :
     /\ c[1] = "substitute_ids"
     /\ \A x, y \in C18_Pairs(c) : (x[1] = y[1] \/ x[2] = y[2]) => x = y}
\* the tokens a line can carry in the place of an alias
C18_Tokens == {"K1", "K2", "K3", "light.a", "light.kitchen"}

\* C17: alias resolution before dispatch.  A registry verb with a first
\* argument x issues exactly one call_service request with the verb's
\* domain and service, whose target is the entity x was registered for as
\* an alias by the last substitute_ids, and x itself when x is no alias;
\* after substitute_ids,K1,light.kitchen the line switch_on,K1 issues
\* light / turn_on / light.kitchen, as switch_on,light.kitchen does.
C17_AliasResolved ==
  [][\A p \in CmdPeers :
       \A parts \in {c \in CmdCommands : c[1] \in DOMAIN Registry /\ Len(c) >= 2} :
         handleCommand(p, parts) =>
           LET x == parts[2]
               named == {e \in Entities : substituteIDs[e] = x}
               req == sendChan'[Len(sendChan')]
           IN  /\ Len(sendChan') = Len(sendChan) + 1
               /\ req.type = TypeCallService
               /\ req.body.domain = Registry[parts[1]].domain
               /\ req.body.service = Registry[parts[1]].service
               /\ IF named = {} THEN req.body.target.entity_id = x
                                ELSE req.body.target.entity_id \in named
               /\ (substituteIDs = subsOf(<<"K1", "light.kitchen">>)
                      /\ parts \in {<<"switch_on", "K1">>,
                                    <<"switch_on", "light.kitchen">>})
                    => req.body = [domain |-> "light", service |-> "turn_on",
                                   target |-> [entity_id |-> "light.kitchen"]]]_vars

\* C17 witness: substitute_ids,K1,light.kitchen was handled and then a
\* switch_on, whose request names light.kitchen
C17_Witness ==
  /\ substituteIDs = subsOf(<<"K1", "light.kitchen">>)
  /\ Len(sendChan) = 2
  /\ sendChan[1].type = "subscribe_entities"
  /\ sendChan[2].type = TypeCallService
  /\ sendChan[2].body.target.entity_id = "light.kitchen"

\* C18: alias round trip and replacement.  After a substitute_ids whose
\* pairs have distinct aliases and distinct entities, each alias of the
\* line resolves to its entity and each entity of the line has its alias
\* as substitute id; no other token resolves (so no alias of an earlier
\* line does) and no other entity has a substitute id.
C18_RoundTrip ==
  [][\A p \in CmdPeers : \A parts \in C18_Lines :
       handleCommand(p, parts) =>
         /\ \A x \in C18_Pairs(parts) :
              /\ ResolveID(idSubstitutes', x[1]) = x[2]
              /\ getSubstituteID(substituteIDs', x[2]) = x[1]
         /\ \A a \in C18_Tokens \ {x[1] : x \in C18_Pairs(parts)} :
              ResolveID(idSubstitutes', a) = a
         /\ \A e \in Entities \ {x[2] : x \in C18_Pairs(parts)} :
              getSubstituteID(substituteIDs', e) = ""]_vars

\* C18 witness: (K1, light.kitchen) was registered and then replaced by the
\* disjoint pair (K2, light.a)
C18_Witness ==
  /\ Len(sendChan) = 2
  /\ sendChan[1].type = "subscribe_entities"
  /\ sendChan[1].body.entity_ids = {"light.kitchen"}
  /\ sendChan[2].type = "subscribe_entities"
  /\ sendChan[2].body.entity_ids = {"light.a"}
  /\ ResolveID(idSubstitutes, "K2") = "light.a"
  /\ ResolveID(idSubstitutes, "K1") = "K1"
  /\ getSubstituteID(substituteIDs, "light.kitchen") = ""

\* C19: the entity -> alias map and the alias -> entity map are mutually
\* inverse: entity e has the substitute id a exactly if a resolves to e.
C19_MapsInverse ==
  \A e \in Entities : \A a \in {"K1", "K2", "K3"} :
    (getSubstituteID(substituteIDs, e) = a) <=> (ResolveID(idSubstitutes, a) = e)

(***************************************************************************)
(* The claims about the translation of an event, checked under SpecFlat.   *)
(***************************************************************************)
\* the filter lets key K pass: K is in it, or it is {"all"}
C20_Passes(K) == filter = <<"all">> \/ \E i \in DOMAIN filter : filter[i] = K
\* the value the event handled last has for key K ("state" or an attribute)
C20_Value(K) ==
  IF K = "state" THEN event.state
  ELSE IF event.attributes.t = "map" /\ K \in DOMAIN event.attributes.m
         THEN event.attributes.m[K]
         ELSE Absent
\* a line for key K itself is among the lines emitted
C20_Emitted(K) ==
  \E i \in DOMAIN lines :
    /\ lines[i].attr_name = K
    /\ lines[i].parent_keys = (IF K = "state" THEN <<>>
                                              ELSE <<"attributes", "_", K>>)

\* a step that translates an event under the filter of the moment
C20_Handled ==
  /\ "attributes" \in DOMAIN event'
  /\ \E order \in (IF event'.attributes.t = "map"
                     THEN Orders(event'.attributes.m) ELSE {<<>>}) :
       processEvent(event', order)

\* C20 as stated: for every key K of the event ("state" included) with a
\* present value, the translation emits a line with attr_name K iff K is in
\* the filter or the filter is {"all"}.
C20_FilterGating ==
  [][C20_Handled =>
       (\A K \in AttrKeys \cup {"state"} :
          C20_Value(K).t \notin {"absent", "nil"}
            => ((\E i \in DOMAIN lines : lines[i].attr_name = K)
                  <=> C20_Passes(K)))']_vars

\* C20 amended: the same for the keys whose value is a scalar or a list,
\* with the line for K being the one with K's own parent chain; for a key
\* whose value is a mapping the translation emits no line for the key
\* itself under any filter.
C20_ScalarGating ==
  [][C20_Handled =>
       (\A K \in AttrKeys \cup {"state"} :
          /\ C20_Value(K).t \in {"num", "str", "list"}
               => (C20_Emitted(K) <=> C20_Passes(K))
          /\ C20_Value(K).t = "map" => ~C20_Emitted(K))']_vars

\* C20 witness: under the filter [color, state] an event with state on,
\* brightness 2 and color red was translated into the state line and the
\* color line
C20_Witness ==
  /\ filter = <<"color", "state">>
  /\ "attributes" \in DOMAIN event
  /\ event.state = Str("on")
  /\ event.attributes = Map([brightness |-> Num(2), color |-> Str("red")])
  /\ Len(lines) = 2
  /\ lines[1].attr_name = "state" /\ lines[2].attr_name = "color"

\* the lines emitted for the event handled last that have the entity id as
\* attr_name and the parent chain attributes_attributes: the merged lines of
\* the attributes mapping
C21_Merged ==
  {i \in DOMAIN lines : /\ lines[i].attr_name = event.entity_id
                        /\ lines[i].parent_keys = <<"attributes", "_", "attributes">>}

\* C21: when the event has an attributes mapping and "attributes" passes the
\* filter, the translation emits exactly one line whose attr_name is the
\* entity id and whose attr_value is the comma-joined key:value pairs of
\* every key of the mapping; when "attributes" does not pass, it emits no
\* such line.
C21_MergedLine ==
  [][(C20_Handled /\ event'.attributes.t = "map") =>
       (IF C20_Passes("attributes")
          THEN /\ Cardinality(C21_Merged) = 1
               /\ \A i \in C21_Merged :
                    \E o \in Orders(event.attributes.m) :
                      lines[i].attr_value = mergedAttrs(event.attributes.m, o)
          ELSE C21_Merged = {})']_vars

\* the order in which the frames of the model write the keys of an
\* attributes mapping: brightness before color
C22_PayloadKeys == <<"brightness", "color">>
C22_PayloadOrder(m) == SelectSeq(C22_PayloadKeys, LAMBDA k : k \in DOMAIN m)

\* C22: the lines of an event are the state line first, then the lines of
\* the attributes in the order the payload writes the keys, then the merged
\* line, whose pairs keep the same key order.
C22_PayloadEmissionOrder ==
  [][C20_Handled =>
       (lines = flattenAndSend(filter, substituteIDs, event,
                               IF event.attributes.t = "map"
                                 THEN C22_PayloadOrder(event.attributes.m)
                                 ELSE <<>>))']_vars

\* the lines held are a translation of the event held under the filter and
\* the aliases of the moment
C23_Translation ==
  /\ "attributes" \in DOMAIN event
  /\ \E o \in (IF event.attributes.t = "map" THEN Orders(event.attributes.m)
                                               ELSE {<<>>}) :
       lines = flattenAndSend(filter, substituteIDs, event, o)

\* C23: translating the same event a second time under the same filter and
\* aliases gives the same lines in the same order with the same text.
C23_Idempotent ==
  [][(C23_Translation /\ C20_Handled /\ event' = event) => lines' = lines]_vars

\* the text of a raw value in a line of its own: a number or a string as it
\* is, a list as its elements joined with commas
C24_Raw(v) ==
  CASE v.t = "num" -> <<Numeral(v.n)>>
    [] v.t = "str" -> <<v.s>>
    [] v.t = "list" -> Join([j \in DOMAIN v.items |-> Sprintf_v(v.items[j])], ",")

\* the text a line for key K with raw value v has to carry
C24_Emitted(K, v) ==
  IF K = "brightness" /\ v.t = "num" /\ v.n \in {1, 2} THEN <<"3">> ELSE C24_Raw(v)

\* C24: a line with attr_name brightness carries 3 when the raw number is 1
\* or 2 and the raw value otherwise; the line of any other key (state
\* included) carries the raw value; the merged line carries the raw
\* brightness.
C24_BrightnessClamp ==
  [][C20_Handled =>
       (\A i \in DOMAIN lines :
          /\ lines[i].parent_keys = <<>>
               => lines[i].attr_value = C24_Raw(event.state)
          /\ \A K \in AttrKeys :
               lines[i].parent_keys = <<"attributes", "_", K>>
                 => lines[i].attr_value = C24_Emitted(K, event.attributes.m[K])
          /\ lines[i].parent_keys = <<"attributes", "_", "brightness", "_", "r">>
               => lines[i].attr_value =
                    C24_Raw(event.attributes.m["brightness"].m["r"])
          /\ ( /\ lines[i].parent_keys = <<"attributes", "_", "attributes">>
               /\ "brightness" \in DOMAIN event.attributes.m
               /\ event.attributes.m["brightness"].t = "num" )
               => \E j \in 1..(Len(lines[i].attr_value) - 2) :
                    /\ lines[i].attr_value[j] = "brightness"
                    /\ lines[i].attr_value[j + 1] = ":"
                    /\ lines[i].attr_value[j + 2] =
                         Numeral(event.attributes.m["brightness"].n))']_vars

\* C24 witness: an event with brightness 2 and color 2 was translated into
\* a brightness line carrying 3, a color line carrying 2 and a merged line
C24_Witness ==
  /\ "attributes" \in DOMAIN event
  /\ event.attributes = Map([brightness |-> Num(2), color |-> Num(2)])
  /\ \E i, j, k \in DOMAIN lines :
       /\ lines[i].attr_name = "brightness" /\ lines[i].attr_value = <<"3">>
       /\ lines[j].attr_name = "color" /\ lines[j].attr_value = <<"2">>
       /\ lines[k].attr_name = "light.a"
       /\ lines[k].attr_value \in {<<"brightness", ":", "2", ",", "color", ":", "2">>,
                                   <<"color", ":", "2", ",", "brightness", ":", "2">>}

(***************************************************************************)
(* The claims about the reactor implementation's translation, checked      *)
(* under SpecParse.                                                        *)
(***************************************************************************)
\* a step in which the Hass object translates an event
C25_Parsed ==
  /\ "attributes" \in DOMAIN event'
  /\ \E order \in (IF event'.attributes.t = "map"
                     THEN Orders(event'.attributes.m) ELSE {<<>>}) :
       hass_parse_state(event', order)

\* C25: every line emitted for an event carries the event's own entity id
\* in entity_id, and in substitute_id the alias registered for that entity,
\* or the empty string when none is registered.
C25_AliasOnLine ==
  [][C25_Parsed =>
       (\A i \in DOMAIN lines :
          /\ lines[i].entity_id = event.entity_id
          /\ lines[i].substitute_id =
               (IF \E j \in DOMAIN hass.id_substitute :
                     hass.id_substitute[j].k = event.entity_id
                  THEN hass.id_substitute[
                         CHOOSE j \in DOMAIN hass.id_substitute :
                           hass.id_substitute[j].k = event.entity_id].v
                  ELSE ""))']_vars

\* the same for the Go translation: entity_id is the event's entity id and
\* substitute_id the alias the client holds for it
C25_GoAliasOnLine ==
  [][C20_Handled =>
       (\A i \in DOMAIN lines :
          /\ lines[i].entity_id = event.entity_id
          /\ lines[i].substitute_id = substituteIDs[event.entity_id])']_vars

\* a call_service event is held
C26_ServiceEvent == "service_data" \in DOMAIN event

\* the target entities of the call_service event held, in list order
C26_Targets ==
  LET sd == event.service_data
      v == IF sd.t = "map" /\ "entity_id" \in DOMAIN sd.m
             THEN sd.m["entity_id"] ELSE Absent
  IN  CASE v.t = "str" -> <<v.s>>
        [] v.t = "list" -> [i \in DOMAIN v.items |-> v.items[i].s]
        [] OTHER -> <<>>

\* one line type:call_service,entity:<entity>,service:<service>,
\* domain:<domain> per target entity, in list order
C26_OnePerTarget ==
  /\ Len(lines) = Len(C26_Targets)
  /\ \A i \in DOMAIN lines :
       lines[i] = [type |-> "call_service", entity |-> C26_Targets[i],
                   service |-> event.service.s, domain |-> event.domain.s]

\* C26: a call_service event handled by the Hass object emits one line per
\* target entity of service_data.entity_id (one identifier or a list), in
\* list order, and no line when there is no target.
C26_ServiceLines ==
  [][(\E data \in ServiceEvents : hass_parse_service(data))
       => (C26_ServiceEvent /\ C26_OnePerTarget)']_vars

\* the same for the Go translation
C26_GoServiceLines ==
  [][(\E data \in ServiceEvents : processEvent_call_service(data))
       => (C26_ServiceEvent /\ C26_OnePerTarget)']_vars

(***************************************************************************)
(* Further claims about handleCommand, checked under SpecCmd.              *)
(***************************************************************************)
\* C27: a substitute_ids line leaves exactly the aliases of its complete
\* (alias, entity) pairs in the map, the later pair winning for an entity
\* named twice, and issues exactly one subscribe_entities request with the
\* next command id, naming the entities of the pairs and following
\* whatever was queued; with no complete pair the map is left empty, no
\* request is issued and no command id is consumed.
C27_ReplaceThenSubscribe ==
  [][\A p \in CmdPeers :
       \A parts \in {c \in CmdCommands : c[1] = "substitute_ids"} :
         handleCommand(p, parts) =>
           LET pairs == C18_Pairs(parts)
               last(e) == CHOOSE i \in 2..(Len(parts) - 1) :
                            /\ i % 2 = 0 /\ parts[i + 1] = e
                            /\ \A j \in 2..(Len(parts) - 1) :
                                 (j % 2 = 0 /\ parts[j + 1] = e) => j <= i
           IN  /\ \A e \in Entities :
                    substituteIDs'[e] =
                      (IF \E x \in pairs : x[2] = e THEN parts[last(e)] ELSE "")
               /\ IF pairs = {}
                    THEN sendChan' = sendChan /\ idCounter' = idCounter
                    ELSE /\ idCounter' = idCounter + 1
                         /\ Len(sendChan') = Len(sendChan) + 1
                         /\ SubSeq(sendChan', 1, Len(sendChan)) = sendChan
                         /\ LET req == sendChan'[Len(sendChan')]
                            IN  /\ req.type = "subscribe_entities"
                                /\ req.id = idCounter + 1
                                /\ req.body.entity_ids = {x[2] : x \in pairs}]_vars

\* C27 witness: substitute_ids with two pairs was handled, then a line
\* with no complete pair; one request naming both entities is queued and
\* the map is empty again
C27_Witness ==
  /\ Len(sendChan) = 1
  /\ sendChan[1].type = "subscribe_entities"
  /\ sendChan[1].body.entity_ids = {"light.kitchen", "light.a"}
  /\ idCounter = 1
  /\ substituteIDs = NoSubs
  /\ idSubstitutes = NoIds

(***************************************************************************)
(* Further claims checked under SpecFlat.                                  *)
(***************************************************************************)
\* C28: a state_filter line leaves exactly its tokens as the filter, in
\* place of whatever the filter was, and {"all"} when it has no token; it
\* issues no upstream request, consumes no command id and leaves the
\* aliases alone.
C28_FilterReplaced ==
  [][\A p \in CmdPeers :
       \A parts \in {c \in FlatCommands : c[1] = "state_filter"} :
         handleCommand(p, parts) =>
           /\ filter' = (IF Len(parts) = 1 THEN <<"all">>
                                           ELSE SubSeq(parts, 2, Len(parts)))
           /\ sendChan' = sendChan
           /\ idCounter' = idCounter
           /\ wire' = wire
           /\ substituteIDs' = substituteIDs]_vars

\* C28 witness: the filter was [color, state] and a state_filter,r line
\* replaced it while an event translated under the old filter is still held
C28_Witness ==
  /\ filter = <<"r">>
  /\ "attributes" \in DOMAIN event
  /\ Len(lines) = 2
  /\ lines[1].attr_name = "state" /\ lines[2].attr_name = "color"
  /\ event.attributes.t = "map"
  /\ DOMAIN event.attributes.m = {"brightness", "color"}
  /\ sendChan = <<>>
  /\ idCounter = 0

(***************************************************************************)
(* Further claims about the sessions, checked under SpecAllow.             *)
(***************************************************************************)
\* the verbs handleCommand knows, as far as the model follows them
C29_Verbs ==
  {"substitute_ids", "state_filter", "subscribe_entity", "subscribe_events",
   "call_service"} \cup DOMAIN Registry

\* C29: a line with an unknown verb, with or without arguments, issues no
\* upstream request, consumes no command id, changes neither the aliases
\* nor the filter, and leaves every session and the upstream connection as
\* they are.
C29_UnknownVerbNoOp ==
  [][\A p \in GatePeers :
       \A parts \in {c \in Commands : c[1] \notin C29_Verbs} :
         handleCommand(p, parts) =>
           /\ sendChan' = sendChan /\ idCounter' = idCounter /\ wire' = wire
           /\ substituteIDs' = substituteIDs /\ idSubstitutes' = idSubstitutes
           /\ filter' = filter
           /\ sess' = sess /\ clients' = clients
           /\ conn' = conn /\ sock' = sock /\ running']_vars

\* C29 witness: two sessions are open, s1 is registered as the alias of
\* light.a, the filter is [state] and one request is queued: this is the
\* state the line bogus,s1 of either session is handled in and leaves
C29_Witness ==
  /\ sess["p1"] = "open" /\ sess["p3"] = "open"
  /\ substituteIDs["light.a"] = "s1"
  /\ ResolveID(idSubstitutes, "s1") = "light.a"
  /\ filter = <<"state">>
  /\ Len(sendChan) = 1
  /\ ENABLED handleCommand("p3", <<"bogus", "s1">>)

(***************************************************************************)
(* Further claims about the upstream read loop, checked under SpecGate.    *)
(***************************************************************************)
\* C30: a frame that cannot be decoded leaves the authentication flag, the
\* connection, the id counter and the queue, the filter and the aliases as
\* they are, emits no line and starts no broadcast, puts no token into the
\* reconnect channel, and leaves the read loop at ReadMessage, where the
\* next frame is read.
C30_MalformedFrameNoOp ==
  [][\A c \in Conns :
       readLoop_Read(c, Malformed) =>
         /\ isAuth' = isAuth /\ authOks' = authOks /\ authFrame' = authFrame
         /\ conn' = conn /\ sock' = sock
         /\ idCounter' = idCounter /\ sendChan' = sendChan
         /\ filter' = filter /\ substituteIDs' = substituteIDs
         /\ idSubstitutes' = idSubstitutes
         /\ emitted' = emitted /\ bcLeft' = bcLeft /\ bcTodo' = bcTodo
         /\ lastLine' = lastLine /\ sess' = sess
         /\ reconnectChan' = reconnectChan /\ clPc' = clPc
         /\ rl'[c] = "read"]_vars

\* C30 witness: the link is authenticated, a session holds the first line
\* and the read loop is at ReadMessage: a frame that cannot be decoded is
\* read in this state, and an event frame can be read after it
C30_Witness ==
  /\ conn = 1 /\ isAuth /\ rl[1] = "read"
  /\ sess["p1"] = "open" /\ emitted = 1 /\ lastLine["p1"] = 1 /\ bcLeft = 0
  /\ ENABLED readLoop_Read(1, Malformed)
  /\ ENABLED readLoop_Event(1, 1)

(***************************************************************************)
(* The remaining claims about the sessions, checked under SpecGate.        *)
(***************************************************************************)
\* the scanner loop of session p ends: scanner.Scan() returns false at the
\* end of the stream, on a read error and on a line longer than the
\* scanner's buffer (bufio.ErrTooLong), and the deferred delete and Close
\* run
C31_ScannerEnds(p) == handleConnection_Close(p) \/ handleConnection_Close_race(p)

\* C31: when the scanner of a session gives up on a line longer than its
\* buffer, that session is closed and removed, every other session stays
\* registered and open with the lines it holds, the upstream link keeps its
\* connection, its loops and its queue, and the process keeps running.
C31_OverrunClosesOnlyThat ==
  [][\A p \in GatePeers :
       C31_ScannerEnds(p) =>
         /\ sess'[p] = "closed" /\ p \notin clients'
         /\ \A q \in GatePeers \ {p} :
              /\ sess[q] = "open" => sess'[q] = "open"
              /\ q \in clients => q \in clients'
              /\ lastLine'[q] = lastLine[q]
         /\ conn' = conn /\ sock' = sock /\ rl' = rl /\ sendChan' = sendChan
         /\ running']_vars


\* ---------------------------------------------------------------------------
\* Server.Start (part_001 lines 31-47), from the goroutine main starts for it
\* (main.go line 40) to the accept loop.

\* NewServer: the port is not bound yet
InitStart ==
  /\ InitLink
  /\ hass = connect_websocket(initialize, TRUE)
  /\ NewSessions
  /\ listener = "unbound"
  /\ whitelist \in {<<>>, Whitelist}
  /\ enableGeneric = FALSE

\* lines 33, 37-38: net.Listen succeeded, the accept loop runs
Start_Listen ==
  /\ running
  /\ listener = "unbound"
  /\ listener' = "listening"
  /\ UNCHANGED <<sess, clients, filter, substituteIDs, sessFilter, sessSubs,
                 delivered, expected, whitelist, emitted, bcLeft, bcTodo,
                 lastLine, unread, cmdVars, flatVars, linkVars, hassVars>>

\* lines 33-36: net.Listen failed; log.Fatalf writes the message and calls
\* os.Exit(1)
Start_Fatalf ==
  /\ running
  /\ listener = "unbound"
  /\ listener' = "failed"
  /\ running' = FALSE
  /\ UNCHANGED <<conn, sock, isAuth, idCounter, sendChan, reconnectChan, clPc, rl,
                 rlCmd, wl, wlMsg, wlConn, pl, plCmd, sc, scCmd, wire, authFrame,
                 authOks, subs, silence>>
  /\ UNCHANGED <<sess, clients, filter, substituteIDs, sessFilter, sessSubs,
                 delivered, expected, whitelist, emitted, bcLeft, bcTodo,
                 lastLine, unread, cmdVars, flatVars, hassVars>>

NextStart ==
  \/ Start_Listen
  \/ Start_Fatalf
  \/ NextGate

SpecStart == InitStart /\ [][NextStart]_vars

\* C32: a failed bind of the listener does not end the process at once (it
\* is tried again), and the process ends on no other step than a failed
\* bind: not on a failure of the upstream link, of a session or of a command.
C32_BindRetried == Start_Fatalf => running'

C32_NoOtherFatalPath == (running /\ ~running') => Start_Fatalf

C32_SoleFatalPath == [][C32_BindRetried /\ C32_NoOtherFatalPath]_vars


\* ---------------------------------------------------------------------------
\* The remaining claims about the translation, checked under SpecFlat.

\* the value of attribute K of the event handled last is a sequence whose
\* first element is a mapping
C33_HashedArray(K) ==
  /\ C20_Value(K).t = "list"
  /\ Len(C20_Value(K).items) > 0
  /\ C20_Value(K).items[1].t = "map"

\* new_key = entity_id + "_" + index, for the entity of the events
C33_NewKey(entityID, index) ==
  IF entityID = "light.a" THEN <<"light.a_0", "light.a_1">>[index + 1]
                          ELSE entityID

\* a line for inner key ik of the element at the given index of attribute K
C33_ElementLine(K, index, ik) ==
  \E i \in DOMAIN lines :
    /\ lines[i].entity_id = C33_NewKey(event.entity_id, index)
    /\ lines[i].parent_keys
         = <<"attributes", "_", K, "_", Numeral(index), "_", ik>>
    /\ lines[i].attr_name = ik

\* C33: when the value of an attribute that passes the filter is a sequence
\* whose first element is a mapping, the translation emits one line per
\* inner key of each indexed element, under the entity id entity_id_index
\* and the parent chain extended by the index, and it emits no single line
\* for the attribute itself (the comma-joined one).
C33_HashedArrayRecursed ==
  [][C20_Handled =>
       (\A K \in AttrKeys :
          (C33_HashedArray(K) /\ C20_Passes(K))
            => /\ \A j \in DOMAIN C20_Value(K).items :
                    \A ik \in DOMAIN C20_Value(K).items[j].m :
                      C20_Passes(ik) => C33_ElementLine(K, j - 1, ik)
               /\ ~C20_Emitted(K))']_vars


\* ---------------------------------------------------------------------------
\* The remaining claims about the goroutines of ha.Client, checked under
\* Spec.

\* the loops of ha.Client that are running, by the connection they were
\* started for
C34_ReadLoops == {c \in Conns : rl[c] \notin {"none", "done"}}

C34_WriteLoops == {c \in Conns : wl[c] \notin {"none", "done"}}

C34_PingLoops == {c \in Conns : pl[c] \notin {"none", "done"}}

\* C34: whatever the number of reconnects, at most one read loop, at most
\* one write loop and at most one ping loop are running.
C34_OneLoopEach ==
  /\ Cardinality(C34_ReadLoops) <= 1
  /\ Cardinality(C34_WriteLoops) <= 1
  /\ Cardinality(C34_PingLoops) <= 1


\* the connections the WriteJSON of write loop c may be writing to: the loop
\* has passed its nil check and has not returned from WriteJSON
C35_Writing(c) ==
  IF wl[c] = "write" THEN {wlConn[c], conn} \ {0} ELSE {}

\* the read loop writes the auth frame itself (handleMessage, lines 240-245)
C35_AuthWrite == \E c \in Conns : readLoop_Read(c, TypeAuthRequired)

\* C35: at most one goroutine writes to the upstream socket at a time: no
\* two write loops are inside WriteJSON on the same connection, and the read
\* loop does not write the auth frame while a write loop is inside WriteJSON
\* on that connection.
C35_OneWriter ==
  /\ [](\A c, d \in Conns : c # d => C35_Writing(c) \cap C35_Writing(d) = {})
  /\ [][C35_AuthWrite => \A c \in Conns : conn \notin C35_Writing(c)]_vars

\* write loop c uses the connection: WriteJSON writes, fails, or
\* dereferences nil
C36_Uses(c) ==
  \/ \E t \in Conns : writeLoop_Write(c, t) \/ writeLoop_Error(c, t)
  \/ writeLoop_Panic(c)

\* C36: no cleanup() comes between the nil check of a goroutine and its use
\* of the connection: when a write loop calls WriteJSON the connection its
\* check saw is still the current one and has not been closed.
C36_CheckThenUse ==
  [][\A c \in Conns :
       C36_Uses(c) => (conn = wlConn[c] /\ sock[wlConn[c]] = "open")]_vars


\* ---------------------------------------------------------------------------
\* The remaining claim about Server.clients, checked under SpecGate.

\* a write of s.clients by the goroutine of session p (lines 79, 80) that
\* another goroutine's access coincides with
C37_Coinciding(p) ==
  handleConnection_Accept_race(p) \/ handleConnection_Close_race(p)

\* C37: s.clients is never accessed by two goroutines at once when one of
\* them modifies it: no registration and no delete coincides with another
\* write or with the range of Broadcast.
C37_NoConcurrentAccess ==
  [][\A p \in GatePeers : ~C37_Coinciding(p)]_vars


\* ---------------------------------------------------------------------------
\* flattenAndSend (client.go lines 325-341) and the range of processMap
\* (lines 343-391) call by call, on the goroutine of the read loop, while the
\* goroutines of the sessions run SetFilter and SetSubstituteIDs.  Every
\* includedWithFilter and getSubstituteID takes c.mu for itself (lines 67-80,
\* 105-113): the lock is free between two calls.

\* the calls flattenAndSend makes for new_state data, in order: the state,
\* one pass of the range loop per attribute, the merged attributes
flattenAndSend_calls(data, order) ==
  (IF data.state.t # "absent"
     THEN <<[u |-> "state", k |-> "state", order |-> <<>>]>> ELSE <<>>)
  \o (IF data.attributes.t = "map"
        THEN [i \in DOMAIN order |-> [u |-> "range", k |-> order[i],
                                      order |-> <<>>]]
               \o <<[u |-> "merged", k |-> "attributes", order |-> order]>>
        ELSE <<>>)

\* the lines one of these calls hands to onMessage under filter f and map s
flattenAndSend_call(f, s, data, call) ==
  CASE call.u = "state" ->
         WireMessage(f, s, data.entity_id, <<>>, "state", data.state)
    [] call.u = "range" ->
         processMap_range(f, s, data.entity_id, data.attributes.m,
                          <<"attributes">>, <<call.k>>, 1)
    [] call.u = "merged" ->
         IF includedWithFilter(f, "attributes")
           THEN WireMessage(f, s, data.entity_id,
                            <<"attributes", "attributes">>, data.entity_id,
                            Text(mergedAttrs(data.attributes.m, call.order)))
           ELSE <<>>

\* processEvent, lines 264-281: a state_changed event arrives and
\* flattenAndSend is entered
processEvent_Enter(data, order) ==
  /\ running
  /\ todo = <<>>
  /\ event' = data
  /\ lines' = <<>>
  /\ todo' = flattenAndSend_calls(data, order)
  /\ UNCHANGED <<sess, clients, filter, substituteIDs, sessFilter, sessSubs,
                 delivered, expected, gateVars, cmdVars, linkVars, hassVars>>

\* the next call of flattenAndSend, under the filter and the map of the
\* moment
flattenAndSend_Next ==
  /\ running
  /\ todo # <<>>
  /\ lines' = lines \o flattenAndSend_call(filter, substituteIDs, event,
                                           Head(todo))
  /\ todo' = Tail(todo)
  /\ UNCHANGED <<sess, clients, filter, substituteIDs, sessFilter, sessSubs,
                 delivered, expected, gateVars, cmdVars, linkVars, hassVars,
                 event>>

\* the events followed call by call
SnapEvents ==
  {e \in StateEvents :
     /\ e.attributes.t = "map"
     /\ DOMAIN e.attributes.m = AttrKeys
     /\ \A k \in AttrKeys : e.attributes.m[k].t \in {"num", "str"}}

NextSnap ==
  \/ \E p \in CmdPeers : handleConnection_Accept(p)
  \/ \E p \in CmdPeers, parts \in FlatCommands : handleCommand(p, parts)
  \/ \E data \in SnapEvents : \E order \in Orders(data.attributes.m) :
       processEvent_Enter(data, order)
  \/ flattenAndSend_Next

SpecSnap == InitFlat /\ [][NextSnap]_vars

\* the filters and the maps a session can set
C38_Filters == {SetFilter(f) : f \in Filters \cup {<<>>}}

C38_Maps == {NoSubs, subsOf(<<"K1", "light.a">>)}

\* C38: all the lines of one event are computed under a single snapshot of
\* the filter and the map: when the flattening of an event ends, its lines
\* are the ones flattenAndSend gives for the whole event under one filter
\* and one map.
C38_SingleSnapshot ==
  [][(todo # <<>> /\ todo' = <<>>) =>
       (\E f \in C38_Filters, s \in C38_Maps :
          \E order \in Orders(event.attributes.m) :
            lines = flattenAndSend(f, s, event, order))']_vars


\* ---------------------------------------------------------------------------
\* The remaining claim about the commands, checked under SpecCmd.

\* a generic call_service line with its three tokens
C39_Generic(parts) == parts[1] = "call_service" /\ Len(parts) >= 4

\* C39: of a call_service line only the entity_id token goes through the
\* alias resolution: the request submitted carries the domain and the
\* service of the line as they are and the entity the entity_id token
\* resolves to.
C39_OnlyEntityResolved ==
  [][\A p \in CmdPeers : \A parts \in CmdCommands :
       (C39_Generic(parts) /\ handleCommand(p, parts))
         => /\ Len(sendChan') = Len(sendChan) + 1
            /\ sendChan'[Len(sendChan')].body
                 = [domain |-> parts[2], service |-> parts[3],
                    target |-> [entity_id |->
                                  ResolveID(idSubstitutes, parts[4])]]]_vars


\* ---------------------------------------------------------------------------
\* The remaining claim about class Hass, checked under SpecHass.

\* send_json gave a request the next id and handed it to @hass_ws.send
\* (lines 862-866), on a connection that is established
C40_Transmitted == hass'.up /\ hass'.id > hass.id /\ ~hass'.ws.closed

\* C40: on every connection, the first and the re-established ones alike, a
\* request handed to send_json is held in the queue until the auth_ok of
\* that connection has been handled: whenever a request is transmitted, it
\* goes to a connection whose auth_ok has been handled.
C40_QueuedUntilAuthOk ==
  [][C40_Transmitted => hass'.authed]_vars

=============================================================================
